---- MODULE Spec2Model ----
(***************************************************************************)
(* KidSafe TV: the sandbox security module (lib/sandboxSecurity), the      *)
(* YouTubePlayer component that locks containment and reacts to escape     *)
(* attempts, and the ChildViewer component that owns the playback view.    *)
(*                                                                         *)
(* The browser is modelled by its listener lists (in registration order),  *)
(* the value of window.open, the session history depth and the fullscreen  *)
(* element.  A React event handler and the commit that follows it (render, *)
(* effect cleanups, effects) form one step.                                *)
(*                                                                         *)
(* Strings whose content the code inspects (origins, event names) are      *)
(* sequences of chunks; startsWith / includes / replace work on chunks.    *)
(***************************************************************************)
EXTENDS Integers, Sequences, FiniteSets, TLC

VARIABLES
    state,              \* the module-level SandboxState singleton
    listeners,          \* event type -> listeners in registration order
    windowOpen,         \* 0: the native window.open, n > 0: n-th wrapper
    requestFullscreen,  \* 0: native Element.prototype.requestFullscreen
    historyDepth,       \* number of session history entries behind us
    fullscreenElement,  \* document.fullscreenElement is set
    viewer,             \* ChildViewer component state (mounted or not)
    player,             \* YouTubePlayer component state (mounted or not)
    widget,             \* the embedded third-party player instance
    ev,                 \* what the last step did (event, suppression, ...)
    modal,              \* DeleteConfirmModal component state
    tracker,            \* stored settings, the clock and a running endSession
    hoursCheck,         \* the last allowed-hours check of handlePlayVideo
    limiter,            \* the proxy's rateLimitMap, its clock and last answer
    library             \* stored playlists, the manager's list, running calls

vars == <<state, listeners, windowOpen, requestFullscreen, historyDepth,
          fullscreenElement, viewer, player, widget, ev, modal,
          tracker, hoursCheck, limiter, library>>

\* ------------------------------------------------------------------------
\* Bounds of the model
\* ------------------------------------------------------------------------
MaxHistory == 5        \* history entries the application may pile up
MaxApiHistory == 3     \* the same for direct lockNavigation calls
MaxEscapes == 2        \* escape attempts counted per component
MaxWrappers == 2       \* wrappers and listeners stacked by failed calls
NumVideos == 2         \* videos of the current playlist
MaxRetries == 1        \* "Try Again" presses per mounted player
MaxConfirms == 2       \* deletions confirmed through the modal
MaxMinutes == 3        \* minutes the clock advances
MaxDays == 1           \* midnights the clock passes
MaxUsage == 4          \* minutes of daily usage stored
MaxClockSteps == 2     \* advances of the proxy's clock
MaxOtherRequests == 2  \* requests counted for the second client
MaxPlaylists == 3      \* playlists created
MaxTasks == 2          \* playlist operations running at the same time

\* ------------------------------------------------------------------------
\* Strings as chunk sequences
\* ------------------------------------------------------------------------
IndexOf(s, c) ==
    IF \E i \in 1..Len(s) : s[i] = c
    THEN CHOOSE i \in 1..Len(s) : s[i] = c /\ \A j \in 1..(i - 1) : s[j] # c
    ELSE 0

\* String.prototype.replace(pattern, replacement): first occurrence only
Replace(s, pat, to) ==
    LET i == IndexOf(s, pat)
    IN  IF i = 0 THEN s ELSE SubSeq(s, 1, i - 1) \o to \o SubSeq(s, i + 1, Len(s))

StartsWith(s, p) == Len(p) <= Len(s) /\ SubSeq(s, 1, Len(p)) = p

Includes(s, c) == \E i \in 1..Len(s) : s[i] = c

\* ------------------------------------------------------------------------
\* Allow lists (sandboxSecurity)
\* ------------------------------------------------------------------------
ALLOWED_ORIGINS ==
    << <<"https://", "www.youtube.com">>,
       <<"https://", "www.youtube-nocookie.com">>,
       <<"https://", "youtube.com">> >>

ALLOWED_YOUTUBE_EVENTS ==
    { <<"initialDelivery">>, <<"onReady">>, <<"onStateChange">>,
      <<"onPlaybackQualityChange">>, <<"onPlaybackRateChange">>,
      <<"onError">>, <<"onApiChange">>, <<"infoDelivery">>,
      <<"apiInfoDelivery">> }

BLOCKED_KEYS ==
    { "f", "F", "Escape", " ", "ArrowUp", "ArrowDown", "ArrowLeft",
      "ArrowRight", "m", "M", "c", "C", "k", "K", "j", "J", "l", "L",
      "0", "1", "2", "3", "4", "5", "6", "7", "8", "9" }

\* the layers initSandboxSecurity installs, in the order it pushes their
\* cleanup functions
Layers ==
    << "postMessage", "popstate", "windowOpen", "targetBlank", "anchor",
       "keyboard", "contextMenu", "longPress", "doubleClick", "drag",
       "fullscreen" >>

\* the DOM event types each layer subscribes its handler to
LayerEvents(layer) ==
    CASE layer = "postMessage" -> <<"message">>
      [] layer = "popstate"    -> <<"popstate">>
      [] layer = "targetBlank" -> <<"mutation">>
      [] layer = "anchor"      -> <<"click">>
      [] layer = "keyboard"    -> <<"keydown">>
      [] layer = "contextMenu" -> <<"contextmenu">>
      [] layer = "longPress"   -> <<"touchstart", "touchend", "touchmove">>
      [] layer = "doubleClick" -> <<"dblclick">>
      [] layer = "drag"        -> <<"dragstart">>
      [] layer = "fullscreen"  -> <<"fullscreenchange", "webkitfullscreenchange">>
      [] OTHER                 -> <<>>

\* "mutation" stands for the MutationObserver of setupTargetBlankBlock
EventTypes ==
    { "message", "popstate", "mutation", "click", "keydown", "contextmenu",
      "touchstart", "touchend", "touchmove", "dblclick", "dragstart",
      "fullscreenchange", "webkitfullscreenchange" }

\* ------------------------------------------------------------------------
\* Inputs the environment draws from
\* ------------------------------------------------------------------------
Origins ==
    { <<"https://", "www.youtube-nocookie.com">>,
      <<"https://", "evil.example">>,
      <<"https://", "www.youtube.com", ".evil.example">> }

NoEvent == <<>>

\* message payloads: kind "text" is a string that is not JSON, "json" a
\* string holding an object, "object" an object, "nil" the value null;
\* event / info are data.event and data.info.event (NoEvent when absent)
MkData(kind, event, info) == [kind |-> kind, event |-> event, info |-> info]

Payloads ==
    { MkData("text", NoEvent, NoEvent),
      MkData("nil", NoEvent, NoEvent),
      MkData("object", <<"onStateChange">>, NoEvent),
      MkData("json", <<"navigate", "_out">>, NoEvent),
      MkData("object", NoEvent, <<"video", "click">>),
      MkData("object", <<"onStateChange">>, <<"navigate", "_out">>),
      MkData("object", <<"foo">>, NoEvent) }

Keys == { "f", "Escape", "5", "a" }

\* a smaller choice of messages: from the embed with a status update, from
\* an unknown origin with a navigation event, from the embed with one
AppMessages ==
    { [origin |-> <<"https://", "www.youtube-nocookie.com">>,
       data |-> MkData("object", <<"onStateChange">>, NoEvent)],
      [origin |-> <<"https://", "evil.example">>,
       data |-> MkData("json", <<"navigate", "_out">>, NoEvent)],
      [origin |-> <<"https://", "www.youtube-nocookie.com">>,
       data |-> MkData("json", <<"navigate", "_out">>, NoEvent)] }

\* anchor clicks: whether target.closest('a') finds an anchor, how its href
\* begins, and whether the resolved URL has another origin than the app
MkClick(anchor, prefix, crossOrigin) ==
    [anchor |-> anchor, prefix |-> prefix, crossOrigin |-> crossOrigin]

Hrefs ==
    { MkClick(FALSE, "other", FALSE),      \* no anchor above the target
      MkClick(TRUE, "other", FALSE),       \* href="/videos"
      MkClick(TRUE, "http", FALSE),        \* absolute, same origin
      MkClick(TRUE, "http", TRUE),         \* absolute, other origin
      MkClick(TRUE, "//", TRUE),           \* protocol-relative, other origin
      MkClick(TRUE, "other", TRUE) }       \* e.g. href="HTTPS://other.example"

\* first argument of window.open
Urls == { "https://other.example/", "about:blank" }

\* the cleanup functions that throw in one cleanupSandboxSecurity call
ThrowingCleanups == { {"postMessage"}, {"targetBlank", "fullscreen"} }

FullscreenMethods ==
    { "requestFullscreen", "webkitRequestFullscreen" }

\* reaction callbacks other components register; the ones in Throwing throw
\* const END_SCREEN_THRESHOLD, in seconds
END_SCREEN_THRESHOLD == 12

\* what one progress poll finds: whether the iframe is connected, and the
\* current time and duration the embedded player reports (seconds)
MkPoll(connected, current, total) ==
    [connected |-> connected, current |-> current, total |-> total]

Polls ==
    { MkPoll(FALSE, 29, 30),
      MkPoll(TRUE, 0, 0),
      MkPoll(TRUE, 0, 30),
      MkPoll(TRUE, 17, 30),
      MkPoll(TRUE, 18, 30),
      MkPoll(TRUE, 19, 30),
      MkPoll(TRUE, 30, 30) }

Callbacks == { "cb1", "cb2", "cb3" }
Throwing == { "cb2" }

\* ------------------------------------------------------------------------
\* Component state (React useState cells), unmounted components hold the
\* initial values
\* ------------------------------------------------------------------------
PlayerUnmounted ==
    [ mounted            |-> FALSE,
      videoId            |-> 0,
      isReady            |-> FALSE,
      isPlaying          |-> FALSE,
      loadError          |-> FALSE,
      showParentGate     |-> FALSE,
      escapeAttemptCount |-> 0,
      isNearEnd          |-> FALSE,
      retryCount         |-> 0,
      loadTimeout        |-> "none",
      isDragging         |-> FALSE,
      progressIntervalRef |-> "null",
      activeIntervals    |-> 0 ]

ViewerUnmounted ==
    [ mounted            |-> FALSE,
      isWatching         |-> FALSE,
      showComplete       |-> FALSE,
      escapeAttemptCount |-> 0,
      isPlayerPlaying    |-> FALSE,
      currentVideoIndex  |-> 0 ]

\* the embedded player instance: status "none" (no instance), "loading",
\* "cued", "playing", "paused", "ended"; pending: a state change the
\* instance has not yet reported through onStateChange
NoWidget == [status |-> "none", pending |-> FALSE]
LoadingWidget == [status |-> "loading", pending |-> FALSE]

StateInit ==
    [ isInitialized      |-> FALSE,
      isNavigationLocked |-> FALSE,
      isPlaying          |-> FALSE,
      escapeHandlers     |-> <<>>,
      cleanupFunctions   |-> <<>>,
      originalWindowOpen |-> -1,
      longPressTimer     |-> FALSE ]

\* the record a step leaves in ev
NewEv(type, arg, w) ==
    [ type               |-> type,
      arg                |-> arg,
      locked             |-> w.state.isNavigationLocked,
      defaultPrevented   |-> FALSE,
      propagationStopped |-> FALSE,
      immediateStopped   |-> FALSE,
      classified         |-> 0,
      invoked            |-> <<>>,
      threw              |-> FALSE,
      result             |-> "none",
      depthBefore        |-> w.historyDepth,
      faults             |-> {},
      pauseCalls         |-> 0,
      passed             |-> "none" ]

\* the whole program state as one value, so that handlers compose
World ==
    [ state             |-> state,
      listeners         |-> listeners,
      windowOpen        |-> windowOpen,
      requestFullscreen |-> requestFullscreen,
      historyDepth      |-> historyDepth,
      fullscreenElement |-> fullscreenElement,
      viewer            |-> viewer,
      player            |-> player,
      widget            |-> widget,
      ev                |-> ev ]

Begin(type, arg) == [World EXCEPT !.ev = NewEv(type, arg, World)]

\* the same with the calls that throw during the step: a layer name stands
\* for its setupX() or for the cleanup function it returned, "pauseVideo"
\* for the embedded player's pauseVideo()
BeginFaulty(type, arg, faults) ==
    [World EXCEPT !.ev = [NewEv(type, arg, World) EXCEPT !.faults = faults]]

\* ------------------------------------------------------------------------
\* Small sequence helpers
\* ------------------------------------------------------------------------
RemoveOne(s, x) ==
    LET i == IndexOf(s, x)
    IN  IF i = 0 THEN s ELSE SubSeq(s, 1, i - 1) \o SubSeq(s, i + 1, Len(s))

\* Set.prototype.add on an insertion-ordered set
SetAdd(s, x) == IF Includes(s, x) THEN s ELSE Append(s, x)

Count(s, x) == Cardinality({i \in 1..Len(s) : s[i] = x})

RECURSIVE AddListeners(_, _, _)
AddListeners(L, types, id) ==
    IF types = <<>> THEN L
    ELSE AddListeners([L EXCEPT ![Head(types)] = Append(@, id)], Tail(types), id)

RECURSIVE RemoveListeners(_, _, _)
RemoveListeners(L, types, id) ==
    IF types = <<>> THEN L
    ELSE RemoveListeners([L EXCEPT ![Head(types)] = RemoveOne(@, id)], Tail(types), id)

\* ------------------------------------------------------------------------
\* The embedded player's API as the host uses it
\* ------------------------------------------------------------------------
\* playerRef.current?.pauseVideo()
pauseVideo(w) ==
    IF w.widget.status = "playing"
    THEN [w EXCEPT !.widget = [status |-> "paused", pending |-> TRUE]]
    ELSE w

\* playerRef.current?.playVideo()
playVideo(w) ==
    IF w.widget.status \in {"cued", "paused", "ended"}
    THEN [w EXCEPT !.widget = [status |-> "playing", pending |-> TRUE]]
    ELSE w

\* ------------------------------------------------------------------------
\* sandboxSecurity: containment state
\* ------------------------------------------------------------------------
onEscapeDetected(w, handler) ==
    [w EXCEPT !.state.escapeHandlers = SetAdd(@, handler)]

\* variant: the returned function clears the whole handler set
UnsubscribeAll(w, handler) == [w EXCEPT !.state.escapeHandlers = <<>>]

\* the function onEscapeDetected returns
Unsubscribe(w, handler) ==
    [w EXCEPT !.state.escapeHandlers = RemoveOne(@, handler)]

\* variant: a single sentinel entry
lockNavigationOnePush(w) ==
    [w EXCEPT !.state.isNavigationLocked = TRUE,
              !.state.isPlaying = TRUE,
              !.historyDepth = @ + 1]

lockNavigation(w) ==
    [w EXCEPT !.state.isNavigationLocked = TRUE,
              !.state.isPlaying = TRUE,
              !.historyDepth = @ + 2]

unlockNavigation(w) ==
    [w EXCEPT !.state.isNavigationLocked = FALSE,
              !.state.isPlaying = FALSE]

\* variant: the flag follows only while locked
setPlayingStateWhileLocked(w, playing) ==
    IF w.state.isNavigationLocked
    THEN [w EXCEPT !.state.isPlaying = playing]
    ELSE w

setPlayingState(w, playing) == [w EXCEPT !.state.isPlaying = playing]

\* ------------------------------------------------------------------------
\* Escape reaction of the components
\* ------------------------------------------------------------------------
\* ChildViewer.handleEscapeAttempt
ViewerHandleEscapeAttempt(w) ==
    [w EXCEPT !.viewer.escapeAttemptCount = @ + 1]

\* variant: pauseVideo() outside the try/catch
handleEscapeAttemptUncaught(w) ==
    IF "pauseVideo" \in w.ev.faults
    THEN [w EXCEPT !.ev.pauseCalls = @ + 1, !.ev.threw = TRUE]
    ELSE ViewerHandleEscapeAttempt(
             [pauseVideo(w) EXCEPT !.ev.pauseCalls = @ + 1,
                                   !.player.isPlaying = FALSE,
                                   !.player.escapeAttemptCount = @ + 1,
                                   !.player.showParentGate = TRUE])

\* YouTubePlayer.handleEscapeAttempt
handleEscapeAttempt(w) ==
    LET w0 == [w EXCEPT !.ev.pauseCalls = @ + 1]
        w1 == IF "pauseVideo" \in w.ev.faults
              THEN w0                                \* thrown and caught
              ELSE pauseVideo(w0)
        w2 == [w1 EXCEPT !.player.isPlaying = FALSE,
                         !.player.escapeAttemptCount = @ + 1,
                         !.player.showParentGate = TRUE]
    IN  ViewerHandleEscapeAttempt(w2)

\* one registered handler called by triggerEscapeDetection; what it leaves
\* in ev.threw tells whether it threw
CallHandler(h, w) ==
    LET w1 == [w EXCEPT !.ev.invoked = Append(@, h)]
    IN  IF h = "player" THEN handleEscapeAttempt(w1)
        ELSE [w1 EXCEPT !.ev.threw = (h \in Throwing)]

\* variant: forEach without the try/catch, the first exception ends it
RECURSIVE ForEachHandlerNoCatch(_, _)
ForEachHandlerNoCatch(hs, w) ==
    IF hs = <<>> \/ w.ev.threw THEN w
    ELSE ForEachHandlerNoCatch(Tail(hs), CallHandler(Head(hs), w))

\* forEach over the handler set with the try/catch around each call
RECURSIVE ForEachHandler(_, _)
ForEachHandler(hs, w) ==
    IF hs = <<>> THEN w
    ELSE LET w1 == CallHandler(Head(hs), w)
         IN  ForEachHandler(Tail(hs), [w1 EXCEPT !.ev.threw = FALSE])

triggerEscapeDetection(w, type) ==
    ForEachHandler(w.state.escapeHandlers,
                   [w EXCEPT !.ev.classified = @ + 1])

\* ------------------------------------------------------------------------
\* sandboxSecurity: the event handlers of the layers
\* ------------------------------------------------------------------------
\* the argument of ALLOWED_ORIGINS.some(...) in handleMessage
OriginMatches(origin, allowed) ==
    StartsWith(origin,
               Replace(Replace(allowed, "https://", <<"https://">>),
                       "http://", <<>>))

OriginAllowed(origin) ==
    \E i \in 1..Len(ALLOWED_ORIGINS) : OriginMatches(origin, ALLOWED_ORIGINS[i])

\* typeof event.data === 'string' ? JSON.parse(event.data) : event.data
\* gives an object, null, or throws
ParseThrows(data) == data.kind = "text"
IsObject(data) == data.kind \in {"object", "json"}

\* data.event || data.info?.event
\* variant: data.info?.event takes precedence over data.event
EventTypeOfInfoFirst(data) ==
    IF data.info # NoEvent THEN data.info ELSE data.event

EventTypeOf(data) == IF data.event # NoEvent THEN data.event ELSE data.info

\* variant: every event type outside the safe list is suspicious
SuspiciousUnlessSafe(eventType) ==
    eventType # NoEvent /\ eventType \notin ALLOWED_YOUTUBE_EVENTS

Suspicious(eventType) ==
    /\ eventType # NoEvent
    /\ eventType \notin ALLOWED_YOUTUBE_EVENTS
    /\ (Includes(eventType, "navigate") \/ Includes(eventType, "redirect")
        \/ Includes(eventType, "click"))

\* variant: JSON.parse outside the try/catch
handleMessageUncaught(w, msg) ==
    IF ~OriginAllowed(msg.origin) /\ w.state.isNavigationLocked
    THEN [w EXCEPT !.ev.result = "unknown origin"]
    ELSE IF ParseThrows(msg.data)
    THEN [w EXCEPT !.ev.threw = TRUE]
    ELSE IF IsObject(msg.data) /\ Suspicious(EventTypeOf(msg.data))
    THEN [triggerEscapeDetection(w, "postMessage") EXCEPT
             !.ev.propagationStopped = TRUE,
             !.ev.immediateStopped = TRUE]
    ELSE w

\* setupPostMessageFilter.handleMessage; msg = [origin, data]
handleMessage(w, msg) ==
    IF ~OriginAllowed(msg.origin) /\ w.state.isNavigationLocked
    THEN [w EXCEPT !.ev.result = "unknown origin"]   \* logged, then return
    ELSE IF ParseThrows(msg.data) \/ ~IsObject(msg.data)
    THEN w
    ELSE IF Suspicious(EventTypeOf(msg.data))
    THEN LET w1 == triggerEscapeDetection(w, "postMessage")
         IN  IF w1.ev.threw
             THEN [w1 EXCEPT !.ev.threw = FALSE]     \* the enclosing catch
             ELSE [w1 EXCEPT !.ev.propagationStopped = TRUE,
                             !.ev.immediateStopped = TRUE]
    ELSE w

\* variant: a pop is an escape attempt whether locked or not
handlePopstateUnlocked(w) ==
    triggerEscapeDetection(
        [w EXCEPT !.ev.defaultPrevented = TRUE,
                  !.historyDepth = @ + 1],
        "navigation")

\* setupPopstateInterception.handlePopstate
handlePopstate(w) ==
    IF w.state.isNavigationLocked
    THEN triggerEscapeDetection(
             [w EXCEPT !.ev.defaultPrevented = TRUE,
                       !.historyDepth = @ + 1],
             "navigation")
    ELSE w

\* variant: window.open blocked whether locked or not
windowOpenWrapperAlwaysBlocking(w) ==
    LET w1 == triggerEscapeDetection(w, "navigation")
    IN  IF w1.ev.threw THEN w1 ELSE [w1 EXCEPT !.ev.result = "null"]

\* the function setupWindowOpenBlock assigns to window.open
windowOpenWrapper(w) ==
    IF w.state.isNavigationLocked
    THEN LET w1 == triggerEscapeDetection(w, "navigation")
         IN  IF w1.ev.threw THEN w1 ELSE [w1 EXCEPT !.ev.result = "null"]
    ELSE IF w.state.originalWindowOpen = 0
    THEN [w EXCEPT !.ev.result = "opened", !.ev.passed = w.ev.arg]
    ELSE IF w.state.originalWindowOpen < 0
    THEN [w EXCEPT !.ev.result = "null"]
    ELSE [w EXCEPT !.ev.result = "recursion", !.ev.threw = TRUE]

\* href.startsWith('http') || href.startsWith('//'), then the origin test
handleClick(w, a) ==
    IF ~w.state.isNavigationLocked THEN w
    ELSE IF a.anchor /\ a.prefix \in {"http", "//"} /\ a.crossOrigin
    THEN triggerEscapeDetection(
             [w EXCEPT !.ev.defaultPrevented = TRUE,
                       !.ev.propagationStopped = TRUE],
             "navigation")
    ELSE w

\* setupKeyboardInterception.handleKeyDown
\* variant: without event.stopImmediatePropagation()
handleKeyDownNoImmediate(w, key) ==
    IF ~w.state.isNavigationLocked THEN w
    ELSE IF key \in BLOCKED_KEYS
    THEN LET w1 == [w EXCEPT !.ev.defaultPrevented = TRUE,
                             !.ev.propagationStopped = TRUE]
         IN  IF key = "Escape"
             THEN triggerEscapeDetection(w1, "fullscreen")
             ELSE w1
    ELSE w

\* variant: every blocked key triggers escape detection
handleKeyDownAlwaysTrigger(w, key) ==
    IF ~w.state.isNavigationLocked THEN w
    ELSE IF key \in BLOCKED_KEYS
    THEN triggerEscapeDetection([w EXCEPT !.ev.defaultPrevented = TRUE,
                                          !.ev.propagationStopped = TRUE,
                                          !.ev.immediateStopped = TRUE],
                                "fullscreen")
    ELSE w

handleKeyDown(w, key) ==
    IF ~w.state.isNavigationLocked THEN w
    ELSE IF key \in BLOCKED_KEYS
    THEN LET w1 == [w EXCEPT !.ev.defaultPrevented = TRUE,
                             !.ev.propagationStopped = TRUE,
                             !.ev.immediateStopped = TRUE]
         IN  IF key = "Escape"
             THEN triggerEscapeDetection(w1, "fullscreen")
             ELSE w1
    ELSE w

\* variant: the gesture is also reported as an escape attempt
handleNuisanceReporting(w) ==
    IF w.state.isNavigationLocked
    THEN triggerEscapeDetection([w EXCEPT !.ev.defaultPrevented = TRUE,
                                          !.ev.propagationStopped = TRUE],
                                "navigation")
    ELSE w

\* handleContextMenu, handleDoubleClick and handleDragStart share one body
handleNuisance(w) ==
    IF w.state.isNavigationLocked
    THEN [w EXCEPT !.ev.defaultPrevented = TRUE,
                   !.ev.propagationStopped = TRUE]
    ELSE w

\* setupLongPressBlock: the timer callback only calls preventDefault on an
\* event whose dispatch is over, which changes nothing
handleTouchStart(w) ==
    IF ~w.state.isNavigationLocked THEN w
    ELSE [w EXCEPT !.state.longPressTimer = TRUE]

\* handleTouchEnd and handleTouchMove
handleTouchEnd(w) == [w EXCEPT !.state.longPressTimer = FALSE]

\* setupFullscreenInterception.handleFullscreenChange
handleFullscreenChange(w) ==
    IF w.fullscreenElement /\ w.state.isNavigationLocked
    THEN triggerEscapeDetection([w EXCEPT !.fullscreenElement = FALSE,
                                          !.ev.result = "exitFullscreen"],
                                "fullscreen")
    ELSE w

\* the functions setupFullscreenInterception assigns to
\* Element.prototype.requestFullscreen and to the prefixed methods
requestFullscreenWrapper(w, method) ==
    IF w.state.isNavigationLocked
    THEN IF method = "requestFullscreen"
         THEN LET w1 == triggerEscapeDetection(w, "fullscreen")
              IN  IF w1.ev.threw THEN w1 ELSE [w1 EXCEPT !.ev.result = "rejected"]
         ELSE [w EXCEPT !.ev.result = "rejected"]
    ELSE [w EXCEPT !.ev.result = "native", !.fullscreenElement = TRUE]

\* ------------------------------------------------------------------------
\* ChildViewer: the window listeners of its Escape / Back effect
\* ------------------------------------------------------------------------
handleBackToBrowse(w) == [w EXCEPT !.viewer.isWatching = FALSE]

\* isQueueOpen is never set to true by this component, so only the
\* isWatching branch of the Escape handling can run
ViewerHandleKeyDown(w, key) ==
    IF key = "Escape" /\ w.viewer.isWatching
    THEN [handleBackToBrowse(w) EXCEPT !.ev.defaultPrevented = TRUE,
                                       !.ev.propagationStopped = TRUE]
    ELSE w

ViewerHandlePopState(w) ==
    IF w.viewer.isWatching
    THEN [handleBackToBrowse(w) EXCEPT !.ev.defaultPrevented = TRUE,
                                       !.historyDepth = @ + 1]
    ELSE w

\* ------------------------------------------------------------------------
\* Event dispatch: the listeners of the event type run in registration
\* order until one calls stopImmediatePropagation
\* ------------------------------------------------------------------------
RunListener(id, type, arg, w) ==
    IF id = "sb"
    THEN CASE type = "message"     -> handleMessage(w, arg)
           [] type = "popstate"    -> handlePopstate(w)
           [] type = "click"       -> handleClick(w, arg)
           [] type = "keydown"     -> handleKeyDown(w, arg)
           [] type = "touchstart"  -> handleTouchStart(w)
           [] type \in {"touchend", "touchmove"} -> handleTouchEnd(w)
           [] type \in {"contextmenu", "dblclick", "dragstart"} -> handleNuisance(w)
           [] type \in {"fullscreenchange", "webkitfullscreenchange"}
                                   -> handleFullscreenChange(w)
           [] OTHER                -> w
    ELSE CASE type = "keydown"     -> ViewerHandleKeyDown(w, arg)
           [] type = "popstate"    -> ViewerHandlePopState(w)
           [] OTHER                -> w

RECURSIVE RunListeners(_, _, _, _)
RunListeners(ls, type, arg, w) ==
    IF ls = <<>> \/ w.ev.immediateStopped THEN w
    ELSE RunListeners(Tail(ls), type, arg, RunListener(Head(ls), type, arg, w))

Dispatch(type, arg) ==
    LET w == Begin(type, arg)
    IN  RunListeners(w.listeners[type], type, arg, w)

DispatchFaulty(type, arg, faults) ==
    LET w == BeginFaulty(type, arg, faults)
    IN  RunListeners(w.listeners[type], type, arg, w)

\* ------------------------------------------------------------------------
\* sandboxSecurity: initialization and cleanup
\* ------------------------------------------------------------------------
\* one state.cleanupFunctions.push(setupX()) line of initSandboxSecurity
\* a setupX() that throws does so before it subscribes anything, and
\* nothing is pushed
SetupLayer(layer, w) ==
    LET w1 == [w EXCEPT !.listeners = AddListeners(@, LayerEvents(layer), "sb")]
        w2 == CASE layer = "windowOpen" ->
                     [w1 EXCEPT !.state.originalWindowOpen = w.windowOpen,
                                !.windowOpen = @ + 1]
                [] layer = "fullscreen" ->
                     [w1 EXCEPT !.requestFullscreen = @ + 1]
                [] OTHER -> w1
    IN  IF layer \in w.ev.faults
        THEN [w EXCEPT !.ev.threw = TRUE]
        ELSE [w2 EXCEPT !.state.cleanupFunctions =
                 Append(@, [layer    |-> layer,
                            original |-> IF layer = "fullscreen"
                                         THEN w.requestFullscreen ELSE 0])]

\* the setup lines in order; an exception ends the function
RECURSIVE SetupLayers(_, _)
SetupLayers(ls, w) ==
    IF ls = <<>> \/ w.ev.threw THEN w
    ELSE SetupLayers(Tail(ls), SetupLayer(Head(ls), w))

\* variant: without the isInitialized guard
initSandboxSecurityUnguarded(w) ==
    [SetupLayers(Layers, w) EXCEPT !.state.isInitialized = TRUE]

initSandboxSecurity(w) ==
    IF w.state.isInitialized THEN w
    ELSE LET w1 == SetupLayers(Layers, w)
         IN  IF w1.ev.threw THEN w1
             ELSE [w1 EXCEPT !.state.isInitialized = TRUE]

\* variant: the cleanup functions restore the patched methods but leave
\* the event listeners subscribed
RunCleanupKeepingListeners(c, w) ==
    CASE c.layer = "windowOpen" ->
           IF w.state.originalWindowOpen >= 0
           THEN [w EXCEPT !.windowOpen = w.state.originalWindowOpen]
           ELSE w
      [] c.layer = "fullscreen" ->
           [w EXCEPT !.requestFullscreen = c.original]
      [] OTHER -> w

\* the function a setupX() returned; c.original is the native method the
\* fullscreen layer captured
\* variant: the cleanup functions unsubscribe the listeners but leave the
\* patched methods in place
RunCleanupKeepingWrappers(c, w) ==
    [w EXCEPT !.ev.invoked = Append(@, c.layer),
              !.listeners = RemoveListeners(@, LayerEvents(c.layer), "sb")]

RunCleanup(c, w) ==
    LET w0 == [w EXCEPT !.ev.invoked = Append(@, c.layer)]
        w1 == [w0 EXCEPT !.listeners = RemoveListeners(@, LayerEvents(c.layer), "sb")]
    IN  IF c.layer \in w.ev.faults
        THEN [w0 EXCEPT !.ev.threw = TRUE]
        ELSE CASE c.layer = "windowOpen" ->
                    IF w.state.originalWindowOpen >= 0
                    THEN [w1 EXCEPT !.windowOpen = w.state.originalWindowOpen]
                    ELSE w1
               [] c.layer = "fullscreen" ->
                    [w1 EXCEPT !.requestFullscreen = c.original]
               [] OTHER -> w1

\* variant: cleanupFunctions.forEach without the try/catch
RECURSIVE RunCleanupsNoCatch(_, _)
RunCleanupsNoCatch(cs, w) ==
    IF cs = <<>> \/ w.ev.threw THEN w
    ELSE RunCleanupsNoCatch(Tail(cs), RunCleanup(Head(cs), w))

\* cleanupFunctions.forEach with the try/catch around each call
RECURSIVE RunCleanups(_, _)
RunCleanups(cs, w) ==
    IF cs = <<>> THEN w
    ELSE RunCleanups(Tail(cs),
                     [RunCleanup(Head(cs), w) EXCEPT !.ev.threw = FALSE])

cleanupSandboxSecurity(w) ==
    IF ~w.state.isInitialized THEN w
    ELSE [RunCleanups(w.state.cleanupFunctions, w) EXCEPT
             !.state.cleanupFunctions = <<>>,
             !.state.escapeHandlers = <<>>,
             !.state.isInitialized = FALSE,
             !.state.isNavigationLocked = FALSE,
             !.state.isPlaying = FALSE]

\* ------------------------------------------------------------------------
\* React commit: what rendering the new component state and running the
\* effect cleanups and effects does.  w0 is the world before the handler
\* ran, w the world after it.
\* ------------------------------------------------------------------------
\* ChildViewer renders <YouTubePlayer> only in its watching branch, which
\* comes after the showComplete branch
ShouldMountPlayer(v) == v.mounted /\ ~v.showComplete /\ v.isWatching

\* the synchronous part of initPlayer and the instance it creates. The
\* load timer replaces the one pending; its callback tests the isReady of
\* the render the effect belongs to: "armed" when that was false, "stale"
\* when it was true (the callback then does nothing)
initPlayer(w) ==
    [w EXCEPT !.player.loadError = FALSE,
              !.player.isReady = FALSE,
              !.player.isNearEnd = FALSE,
              !.player.loadTimeout = IF w.player.isReady THEN "stale" ELSE "armed",
              !.player.videoId = w.viewer.currentVideoIndex,
              !.widget = LoadingWidget]

\* clearInterval(progressIntervalRef.current) if the ref is set. The ref
\* is "null" before the first interval, "live" while the interval it
\* names runs, "cleared" when that interval was cleared; activeIntervals
\* counts the intervals of this component that run
ClearProgressInterval(w) ==
    IF w.player.progressIntervalRef = "live"
    THEN [w EXCEPT !.player.progressIntervalRef = "cleared",
                   !.player.activeIntervals = @ - 1]
    ELSE w

\* variant: the interval effect returns no cleanup
IntervalEffectCleanupMissing(w) == w

\* cleanup of useEffect(..., [isPlaying, isDragging, updateProgress, isOnlineStatus])
IntervalEffectCleanup(w) == ClearProgressInterval(w)

\* body of that effect
IntervalEffect(w) ==
    IF w.player.isPlaying /\ ~w.player.isDragging
    THEN [w EXCEPT !.player.progressIntervalRef = "live",
                   !.player.activeIntervals = @ + 1]
    ELSE ClearProgressInterval(w)

\* variant: the effect locks when playing starts and never reports
\* the playing state
PlayingEffectLockOnly(w) ==
    IF w.player.isPlaying THEN lockNavigation(w) ELSE w

\* variant: the effect unlocks when playback stops
PlayingEffectUnlocking(w) ==
    IF w.player.isPlaying
    THEN setPlayingState(lockNavigation(w), TRUE)
    ELSE unlockNavigation(w)

\* useEffect(..., [isPlaying])
PlayingEffect(w) ==
    IF w.player.isPlaying
    THEN setPlayingState(lockNavigation(w), TRUE)
    ELSE setPlayingState(w, FALSE)

\* effects of a YouTubePlayer that mounts, in declaration order
PlayerMount(w) ==
    LET w1 == [w EXCEPT !.player =
                  [PlayerUnmounted EXCEPT
                      !.mounted = TRUE,
                      !.activeIntervals = w.player.activeIntervals]]
        w2 == onEscapeDetected(w1, "player")
        w3 == PlayingEffect(w2)
        w4 == lockNavigation(w3)
    IN  initPlayer(IntervalEffect(w4))

\* variant: the mount effect without its cleanup
PlayerUnmountKeepingLock(w) ==
    [Unsubscribe(w, "player") EXCEPT !.widget = NoWidget,
                                     !.player = PlayerUnmounted]

\* effect cleanups of a YouTubePlayer that unmounts
PlayerUnmount(w) ==
    LET w1 == Unsubscribe(w, "player")
        w2 == unlockNavigation(w1)
        w3 == IntervalEffectCleanup(w2)
    IN  [w3 EXCEPT !.widget = NoWidget,
                   !.player = [PlayerUnmounted EXCEPT
                                  !.activeIntervals = w3.player.activeIntervals]]

\* variant: the escape counter starts again when the video id changes
PlayerUpdateResetting(w0, w) ==
    LET w1 == IF w.player.isPlaying # w0.player.isPlaying
              THEN PlayingEffect(w) ELSE w
        w2 == IF w.viewer # w0.viewer \/ w.player.retryCount # w0.player.retryCount
              THEN initPlayer(w1)
              ELSE w1
    IN  IF w2.player.videoId # w0.player.videoId
        THEN [w2 EXCEPT !.player.escapeAttemptCount = 0]
        ELSE w2

\* a mounted YouTubePlayer after a render: the isPlaying effect runs when
\* isPlaying changed; the interval effect runs again (cleanup first) when
\* isPlaying, isDragging or updateProgress changed. updateProgress is a
\* new function when duration changed; the duration is not tracked here
\* and the effect is run again after every step that may set it (onReady,
\* a poll that read the times), which leaves what a run without a change
\* leaves. The init effect runs again when videoId changed or
\* ChildViewer rendered again (its onPlay / onPause props are new closures
\* on every render)
PlayerUpdate(w0, w) ==
    LET w1 == IF w.player.isPlaying # w0.player.isPlaying
              THEN PlayingEffect(w) ELSE w
        w2 == IF \/ w.player.isPlaying # w0.player.isPlaying
                 \/ w.player.isDragging # w0.player.isDragging
                 \/ w.ev.type = "onReady"
                 \/ w.ev.type = "updateProgress" /\ w.ev.result = "read"
              THEN IntervalEffect(IntervalEffectCleanup(w1)) ELSE w1
    IN  IF w.viewer # w0.viewer \/ w.player.retryCount # w0.player.retryCount
        THEN initPlayer(w2)
        ELSE w2

PlayerEffects(w0, w) ==
    CASE ~w0.player.mounted /\ ShouldMountPlayer(w.viewer) -> PlayerMount(w)
      [] w0.player.mounted /\ ~ShouldMountPlayer(w.viewer) -> PlayerUnmount(w)
      [] w0.player.mounted /\ ShouldMountPlayer(w.viewer)  -> PlayerUpdate(w0, w)
      [] OTHER -> w

\* ChildViewer's effect on [isWatching, isQueueOpen, handleBackToBrowse]
WatchingEffect(w) ==
    LET w1 == IF w.viewer.isWatching
              THEN [w EXCEPT !.historyDepth = @ + 1,
                             !.listeners = AddListeners(@, <<"popstate">>, "cv")]
              ELSE w
    IN  [w1 EXCEPT !.listeners = AddListeners(@, <<"keydown">>, "cv")]

WatchingEffectCleanup(w) ==
    [w EXCEPT !.listeners = RemoveListeners(@, <<"keydown", "popstate">>, "cv")]

ViewerEffects(w0, w) ==
    CASE ~w0.viewer.mounted /\ w.viewer.mounted ->
             WatchingEffect(initSandboxSecurity(w))
      [] w0.viewer.mounted /\ ~w.viewer.mounted ->
             WatchingEffectCleanup(cleanupSandboxSecurity(w))
      [] w0.viewer.mounted /\ w.viewer.mounted
           /\ w0.viewer.isWatching # w.viewer.isWatching ->
             WatchingEffect(WatchingEffectCleanup(w))
      [] OTHER -> w

Commit(w0, w) == ViewerEffects(w0, PlayerEffects(w0, w))

\* ------------------------------------------------------------------------
\* DeleteConfirmModal
\* ------------------------------------------------------------------------
\* parseInt(s, 10) of a string given as its characters: an optional
\* minus sign, then the value of the longest prefix of digits; NaN when
\* there is no digit
ParseInt(s) ==
    LET Digits == <<"0", "1", "2", "3", "4", "5", "6", "7", "8", "9">>
        IsDigit(c) == \E i \in 1..10 : Digits[i] = c
        DigitValue(c) == (CHOOSE i \in 1..10 : Digits[i] = c) - 1
        RECURSIVE ParseDigits(_, _, _)
        ParseDigits(t, acc, seen) ==
            IF t # <<>> /\ IsDigit(Head(t))
            THEN ParseDigits(Tail(t), 10 * acc + DigitValue(Head(t)), TRUE)
            ELSE [nan |-> ~seen, value |-> acc]
    IN  IF s # <<>> /\ Head(s) = "-"
        THEN LET p == ParseDigits(Tail(s), 0, FALSE)
             IN  [p EXCEPT !.value = 0 - @]
        ELSE ParseDigits(s, 0, FALSE)

\* generateMathProblem: the answers of a op b for the ends of the ranges
\* of a (5..14) and b (1..10)
Answers ==
    UNION { {a + b, a - b, a * b} : a \in {5, 14}, b \in {1, 10} }

\* what is typed into the answer field
TypedAnswers ==
    { <<>>, <<"6">>, <<"1", "5">>, <<"-", "5">>, <<"1", "5", ".", "5">>,
      <<"1", "e", "1">>, <<"1", "4", "0">>, <<"e">> }

\* last: what the last run of handleSubmit did; inFlight: calls of
\* onConfirm that have not settled; confirmed: calls of onConfirm so far
ModalClosed ==
    [ isOpen     |-> FALSE,
      answer     |-> 6,
      userAnswer |-> <<>>,
      error      |-> "",
      isDeleting |-> FALSE,
      inFlight   |-> 0,
      confirmed  |-> 0,
      last       |-> "none" ]

\* variant: every number typed confirms
handleSubmitUnchecked(m, next) ==
    IF ParseInt(m.userAnswer).nan
    THEN [m EXCEPT !.error = "Please enter a number", !.last = "nan"]
    ELSE [m EXCEPT !.isDeleting = TRUE,
                   !.inFlight = @ + 1,
                   !.confirmed = @ + 1,
                   !.last = "confirm"]

\* handleSubmit up to the call of onConfirm; next is the answer of the
\* problem generated after a wrong answer
handleSubmit(m, next) ==
    LET parsed == ParseInt(m.userAnswer)
    IN  IF parsed.nan
        THEN [m EXCEPT !.error = "Please enter a number", !.last = "nan"]
        ELSE IF parsed.value # m.answer
        THEN [m EXCEPT !.error = "Wrong answer. Try again!",
                       !.answer = next,
                       !.userAnswer = <<>>,
                       !.last = "wrong"]
        ELSE [m EXCEPT !.isDeleting = TRUE,
                       !.inFlight = @ + 1,
                       !.confirmed = @ + 1,
                       !.last = "confirm"]

\* ------------------------------------------------------------------------
\* Screen time (lib/timeTracking)
\* ------------------------------------------------------------------------
\* isWithinAllowedHours(settings) at the hour currentHour of the clock; an
\* hour that is not set is -1, and !hour holds of an unset hour and of 0
isWithinAllowedHours(settings, currentHour) ==
    IF settings.bedtime_hour \in {-1, 0} \/ settings.wake_time_hour \in {-1, 0}
    THEN TRUE
    ELSE LET bedtime == settings.bedtime_hour
             wakeTime == settings.wake_time_hour
         IN  IF bedtime > wakeTime
             THEN currentHour >= bedtime \/ currentHour < wakeTime
             ELSE currentHour >= bedtime /\ currentHour < wakeTime

\* updateTimeUsage(settingsId, minutesToAdd) on the stored record: a fresh
\* copy is read, the counter restarts on a new day, and the copy is saved
updateTimeUsage(db, today, minutesToAdd) ==
    IF db.last_viewed_date # today
    THEN [db EXCEPT !.last_viewed_date = today,
                    !.daily_time_used = minutesToAdd]
    ELSE [db EXCEPT !.daily_time_used = @ + minutesToAdd]

\* ------------------------------------------------------------------------
\* The metadata proxy's rate limiter (api/youtube.ts)
\* ------------------------------------------------------------------------
RATE_LIMIT == 100
RATE_WINDOW == 3600000

\* a client address, and the bucket of requests without an address header
ClientIPs == { "203.0.113.7", "unknown" }

\* the limit tested with > in place of >=
checkRateLimitOffByOne(map, now, ip) ==
    LET entry == map[ip]
        cleaned == IF entry.present /\ now > entry.resetTime
                   THEN [map EXCEPT ![ip].present = FALSE]
                   ELSE map
        current == IF cleaned[ip].present
                   THEN cleaned[ip]
                   ELSE [present |-> TRUE, count |-> 0,
                         resetTime |-> now + RATE_WINDOW]
    IN  IF current.count > RATE_LIMIT
        THEN [map |-> cleaned, allowed |-> FALSE, remaining |-> 0]
        ELSE [map |-> [cleaned EXCEPT ![ip] = [current EXCEPT !.count = @ + 1]],
              allowed |-> TRUE,
              remaining |-> RATE_LIMIT - (current.count + 1)]

\* checkRateLimit(ip) at the time now: an expired entry is deleted, a
\* missing one starts a window at now; at the limit the request is refused,
\* else it is counted
checkRateLimit(map, now, ip) ==
    LET entry == map[ip]
        cleaned == IF entry.present /\ now > entry.resetTime
                   THEN [map EXCEPT ![ip].present = FALSE]
                   ELSE map
        current == IF cleaned[ip].present
                   THEN cleaned[ip]
                   ELSE [present |-> TRUE, count |-> 0,
                         resetTime |-> now + RATE_WINDOW]
    IN  IF current.count >= RATE_LIMIT
        THEN [map |-> cleaned, allowed |-> FALSE, remaining |-> 0]
        ELSE [map |-> [cleaned EXCEPT ![ip] = [current EXCEPT !.count = @ + 1]],
              allowed |-> TRUE,
              remaining |-> RATE_LIMIT - (current.count + 1)]

\* ------------------------------------------------------------------------
\* Steps
\* ------------------------------------------------------------------------
InBounds(w) ==
    /\ w.windowOpen <= MaxWrappers
    /\ w.requestFullscreen <= MaxWrappers
    /\ \A t \in EventTypes : Len(w.listeners[t]) <= MaxWrappers
    /\ w.historyDepth <= MaxHistory
    /\ w.viewer.escapeAttemptCount <= MaxEscapes
    /\ w.player.escapeAttemptCount <= MaxEscapes
    /\ w.player.retryCount <= MaxRetries
    /\ w.player.activeIntervals <= MaxWrappers
    /\ w.ev.classified <= MaxEscapes

Step(w) ==
    /\ InBounds(w)
    /\ state' = w.state
    /\ listeners' = w.listeners
    /\ windowOpen' = w.windowOpen
    /\ requestFullscreen' = w.requestFullscreen
    /\ historyDepth' = w.historyDepth
    /\ fullscreenElement' = w.fullscreenElement
    /\ viewer' = w.viewer
    /\ player' = w.player
    /\ widget' = w.widget
    /\ ev' = w.ev
    /\ UNCHANGED <<modal, tracker, hoursCheck, limiter, library>>

\* a handler followed by the React commit
React(w) == Step(Commit(World, w))

\* the state after construction, the allowed-hours check apart
InitApp ==
    /\ state = StateInit
    /\ listeners = [t \in EventTypes |-> <<>>]
    /\ windowOpen = 0
    /\ requestFullscreen = 0
    /\ historyDepth = 0
    /\ fullscreenElement = FALSE
    /\ viewer = ViewerUnmounted
    /\ player = PlayerUnmounted
    /\ widget = NoWidget
    /\ ev = NewEv("start", "none", [state |-> StateInit, historyDepth |-> 0])
    /\ modal = ModalClosed
    \* the stored settings record (usage fields; an unset session_start_time
    \* and a last_viewed_date never written are -1), the clock (minute and
    \* day), the endSession call in progress and the last finished call
    /\ tracker =
          [db |-> [daily_time_used |-> 0, session_start_time |-> -1,
                   last_viewed_date |-> -1],
           now |-> 0,
           today |-> 0,
           pc |-> "idle",
           settings |-> [daily_time_used |-> 0, session_start_time |-> -1,
                         last_viewed_date |-> -1],
           sessionMinutes |-> 0,
           last |-> [op |-> "none", previous |-> 0, sessionMinutes |-> 0,
                     sameDay |-> FALSE, disturbed |-> FALSE]]
    \* the proxy: an empty rateLimitMap, Date.now() = 0, nothing answered
    /\ limiter =
          [map |-> [ip \in ClientIPs |->
                       [present |-> FALSE, count |-> 0, resetTime |-> 0]],
           now |-> 0,
           steps |-> 0,
           last |-> [ip |-> "none", allowed |-> TRUE, remaining |-> 0,
                     status |-> 0]]
    \* no playlist stored, none listed by the manager, no call running
    /\ library =
          [db |-> [p \in 1..MaxPlaylists |->
                      [exists |-> FALSE, is_default |-> FALSE]],
           playlists |-> [p \in 1..MaxPlaylists |->
                             [exists |-> FALSE, is_default |-> FALSE]],
           tasks |-> [t \in 1..MaxTasks |->
                         [pc |-> "idle", kind |-> "none", isDefault |-> FALSE,
                          id |-> 0, todo |-> {}]]]

Init ==
    /\ InitApp
    \* no allowed-hours check made, no hour configured
    /\ hoursCheck = [checked |-> FALSE, hour |-> 0, bedtime_hour |-> -1,
                     wake_time_hour |-> -1, withinAllowedHours |-> TRUE,
                     showTimeRestriction |-> FALSE]

\* --- browser events -----------------------------------------------------
Message(o, d) == React(Dispatch("message", [origin |-> o, data |-> d]))

MessageEvent == \E o \in Origins, d \in Payloads : Message(o, d)

\* the messages drawn while the whole application runs
AppMessageEvent == \E m \in AppMessages : Message(m.origin, m.data)

\* the user goes back: the browser pops one entry, then fires popstate
BackNavigation ==
    /\ historyDepth >= 1
    /\ LET w == [Begin("popstate", "none") EXCEPT !.historyDepth = @ - 1]
       IN  React(RunListeners(w.listeners["popstate"], "popstate", "none", w))

WindowOpenCall ==
    \E url \in Urls :
        LET w == Begin("window.open", url)
        IN  IF windowOpen = 0
            THEN React([w EXCEPT !.ev.result = "opened", !.ev.passed = url])
            ELSE React(windowOpenWrapper(w))

AnchorClick == \E a \in Hrefs : React(Dispatch("click", a))

KeyDown == \E k \in Keys : React(Dispatch("keydown", k))

\* Escape pressed while the embedded player's pauseVideo() throws
KeyDownPauseFailing ==
    React(DispatchFaulty("keydown", "Escape", {"pauseVideo"}))

NuisanceGesture ==
    \E t \in {"contextmenu", "dblclick", "dragstart"} :
        React(Dispatch(t, "none"))

Touch ==
    \E t \in {"touchstart", "touchend", "touchmove"} :
        React(Dispatch(t, "none"))

FullscreenRequest ==
    \E m \in FullscreenMethods :
        LET w == Begin("requestFullscreen", m)
        IN  IF requestFullscreen = 0
            THEN React([w EXCEPT !.ev.result = "native",
                                 !.fullscreenElement = TRUE])
            ELSE React(requestFullscreenWrapper(w, m))

\* fullscreen is entered or left by other means and the change event fires
FullscreenChange ==
    \E t \in {"fullscreenchange", "webkitfullscreenchange"}, on \in BOOLEAN :
        LET w == [Begin(t, on) EXCEPT !.fullscreenElement = on]
        IN  React(RunListeners(w.listeners[t], t, on, w))

\* --- the exported functions called by any component ----------------------
ApiInit ==
    Step(initSandboxSecurity(Begin("initSandboxSecurity", state.isInitialized)))

ApiCleanup ==
    Step(cleanupSandboxSecurity(Begin("cleanupSandboxSecurity", state.isInitialized)))

\* initSandboxSecurity in a document where observer.observe(document.body)
\* of setupTargetBlankBlock throws
ApiInitFailing ==
    Step(initSandboxSecurity(
             BeginFaulty("initSandboxSecurity", state.isInitialized, {"targetBlank"})))

\* cleanupSandboxSecurity with cleanup functions that throw
ApiCleanupThrowing ==
    \E bad \in ThrowingCleanups :
        Step(cleanupSandboxSecurity(
                 BeginFaulty("cleanupSandboxSecurity", state.isInitialized, bad)))

ApiLock ==
    /\ historyDepth + 2 <= MaxApiHistory
    /\ Step(lockNavigation(Begin("lockNavigation", "none")))

ApiUnlock == Step(unlockNavigation(Begin("unlockNavigation", "none")))

ApiSetPlaying ==
    \E b \in BOOLEAN : Step(setPlayingState(Begin("setPlayingState", b), b))

Register(cb) == Step(onEscapeDetected(Begin("onEscapeDetected", cb), cb))

Unregister(cb) == Step(Unsubscribe(Begin("unsubscribe", cb), cb))

ApiRegister == Register("cb1")

ApiUnregister == Unregister("cb1")

ApiRegisterAny == \E cb \in Callbacks : Register(cb)

ApiUnregisterAny == \E cb \in Callbacks : Unregister(cb)

\* --- ChildViewer ----------------------------------------------------------
\* App renders <ChildViewer/> (mode 'child'); currentVideoIndex lives in
\* AppContext and outlives the component
MountViewer ==
    /\ ~viewer.mounted
    /\ React([Begin("mountViewer", "none") EXCEPT
                 !.viewer = [ViewerUnmounted EXCEPT
                                !.mounted = TRUE,
                                !.currentVideoIndex = viewer.currentVideoIndex]])

\* handleParentTrigger reaching PARENT_TRIGGER_TAPS: setMode('pin-entry');
\* the gear button is rendered in every view but the watching view
UnmountViewer ==
    /\ viewer.mounted
    /\ ~ShouldMountPlayer(viewer)
    /\ React([Begin("unmountViewer", "none") EXCEPT
                 !.viewer = [ViewerUnmounted EXCEPT
                                !.currentVideoIndex = viewer.currentVideoIndex]])

\* handlePlayVideo(index) when the time restrictions permit playing: from
\* the browsing views, or from "More Videos" under the player (which lists
\* the other videos and lies under the parent gate overlay)
PlayVideo ==
    /\ viewer.mounted
    /\ ~viewer.showComplete
    /\ \E i \in 0..(NumVideos - 1) :
          /\ viewer.isWatching =>
                 i # viewer.currentVideoIndex /\ ~player.showParentGate
          /\ React([Begin("handlePlayVideo", i) EXCEPT
                       !.viewer.currentVideoIndex = i,
                       !.viewer.isWatching = TRUE,
                       !.viewer.showComplete = FALSE])

\* "Watch Again" of the all-done view
WatchAgain ==
    /\ viewer.mounted
    /\ viewer.showComplete
    /\ React([Begin("watchAgain", "none") EXCEPT
                 !.viewer.currentVideoIndex = 0,
                 !.viewer.showComplete = FALSE])

\* --- YouTubePlayer ----------------------------------------------------------
\* BackButton: rendered in the loading state and in the controls overlay
BackButton ==
    /\ player.mounted
    /\ ~player.isReady \/ ~player.showParentGate
    /\ React(handleBackToBrowse(Begin("onBack", "none")))

handleParentGateDismiss(w) ==
    playVideo([w EXCEPT !.player.showParentGate = FALSE])

handleParentGateBack(w) ==
    handleBackToBrowse([w EXCEPT !.player.showParentGate = FALSE])

ParentGateDismiss ==
    /\ player.mounted
    /\ player.showParentGate
    /\ React(handleParentGateDismiss(Begin("gateDismiss", "none")))

ParentGateBack ==
    /\ player.mounted
    /\ player.showParentGate
    /\ React(handleParentGateBack(Begin("gateBack", "none")))

togglePlay(w) ==
    IF ~w.player.isReady THEN w
    ELSE IF w.player.isPlaying THEN pauseVideo(w) ELSE playVideo(w)

\* the play / pause button of the controls overlay
TogglePlay ==
    /\ player.mounted
    /\ player.isReady
    /\ ~player.showParentGate
    /\ React(togglePlay(Begin("togglePlay", "none")))

\* --- the embedded player's callbacks --------------------------------------
\* events.onReady; autoplay is always requested by ChildViewer and the
\* browser may or may not let playback start
onReady(w, starts) ==
    LET w1 == [w EXCEPT !.player.isReady = TRUE,
                        !.player.loadError = FALSE,
                        !.player.loadTimeout = "none",
                        !.widget = [status |-> "cued", pending |-> FALSE]]
    IN  IF starts THEN playVideo(w1) ELSE w1

WidgetReady ==
    /\ player.mounted
    /\ widget.status = "loading"
    /\ \E starts \in BOOLEAN : React(onReady(Begin("onReady", starts), starts))

\* ChildViewer.handleVideoEnd
handleVideoEnd(w) ==
    IF w.viewer.currentVideoIndex < NumVideos - 1
    THEN [w EXCEPT !.viewer.currentVideoIndex = @ + 1]
    ELSE [handleBackToBrowse(w) EXCEPT !.viewer.showComplete = TRUE]

\* events.onStateChange
onStateChange(w, data) ==
    CASE data = "playing" ->
             [w EXCEPT !.player.isPlaying = TRUE,
                       !.viewer.isPlayerPlaying = TRUE]
      [] data = "paused" ->
             [w EXCEPT !.player.isPlaying = FALSE,
                       !.viewer.isPlayerPlaying = FALSE]
      [] data = "ended" ->
             handleVideoEnd([w EXCEPT !.player.isPlaying = FALSE,
                                      !.player.isNearEnd = FALSE])
      [] OTHER -> w

WidgetStateChange ==
    /\ player.mounted
    /\ widget.pending
    /\ React(onStateChange([Begin("onStateChange", widget.status) EXCEPT
                               !.widget.pending = FALSE],
                           widget.status))

\* variant: the error callback reports an escape attempt
onErrorAsEscape(w) ==
    triggerEscapeDetection([w EXCEPT !.player.loadError = TRUE,
                                     !.player.loadTimeout = "none"],
                           "navigation")

\* events.onError
onError(w) ==
    [w EXCEPT !.player.loadError = TRUE,
              !.player.loadTimeout = "none"]

\* the embedded player reports an error, while loading or later
WidgetError ==
    /\ player.mounted
    /\ widget.status # "none"
    /\ React(onError(Begin("onError", widget.status)))

\* the callback of the load timer: if (mounted && !isReady) with the
\* isReady its closure holds
loadTimeoutCallback(w) ==
    [w EXCEPT !.player.loadError = (@ \/ w.player.loadTimeout = "armed"),
              !.player.loadTimeout = "none"]

\* the load timer runs out (45 s on mobile, 30 s otherwise)
LoadTimeout ==
    /\ player.mounted
    /\ player.loadTimeout # "none"
    /\ React(loadTimeoutCallback(Begin("loadTimeout", player.loadTimeout)))

\* "Try Again" of the error state
Retry ==
    /\ player.mounted
    /\ player.loadError
    /\ React([Begin("retry", "none") EXCEPT !.player.retryCount = @ + 1])

\* variant: the overlay only below the threshold
updateProgressStrict(w, poll) ==
    IF ~w.player.isPlaying \/ w.player.isDragging THEN w
    ELSE IF w.widget.status \in {"none", "loading"}
    THEN [w EXCEPT !.ev.result = "skipped"]
    ELSE IF ~poll.connected THEN w
    ELSE [w EXCEPT !.ev.result = "read",
                   !.player.isNearEnd =
                       (poll.total > 0
                          /\ poll.total - poll.current < END_SCREEN_THRESHOLD)]

\* updateProgress. Without a player instance, or with one that is not
\* ready (no getIframe yet), the poll ends before it reads the times
updateProgress(w, poll) ==
    IF ~w.player.isPlaying \/ w.player.isDragging THEN w
    ELSE IF w.widget.status \in {"none", "loading"}
    THEN [w EXCEPT !.ev.result = "skipped"]
    ELSE IF ~poll.connected THEN w
    ELSE [w EXCEPT !.ev.result = "read",
                   !.player.isNearEnd =
                       (poll.total > 0
                          /\ poll.total - poll.current <= END_SCREEN_THRESHOLD)]

\* a tick of a running 500 ms interval
ProgressPoll ==
    /\ player.mounted
    /\ player.activeIntervals >= 1
    /\ \E poll \in Polls :
          React(updateProgress(Begin("updateProgress", poll), poll))

\* the seek bar of the controls overlay: onMouseDown / onTouchStart
SeekStart ==
    /\ player.mounted
    /\ player.isReady
    /\ ~player.showParentGate
    /\ React([Begin("seekStart", "none") EXCEPT !.player.isDragging = TRUE])

\* handleSeekEnd
SeekEnd ==
    /\ player.mounted
    /\ player.isDragging
    /\ React([Begin("seekEnd", "none") EXCEPT !.player.isDragging = FALSE])

\* the video plays to its end
WidgetEnds ==
    /\ widget.status = "playing"
    /\ Step([Begin("videoEnds", "none") EXCEPT
                !.widget = [status |-> "ended", pending |-> TRUE]])

\* ------------------------------------------------------------------------
\* Specifications
\* ------------------------------------------------------------------------
\* the application: ChildViewer, YouTubePlayer, the embedded player and
\* the browser
Next ==
    \/ MountViewer
    \/ UnmountViewer
    \/ PlayVideo
    \/ WatchAgain
    \/ BackButton
    \/ ParentGateDismiss
    \/ ParentGateBack
    \/ TogglePlay
    \/ WidgetReady
    \/ WidgetStateChange
    \/ WidgetEnds
    \/ WidgetError
    \/ LoadTimeout
    \/ Retry
    \/ AppMessageEvent
    \/ BackNavigation
    \/ KeyDown
    \/ KeyDownPauseFailing
    \/ WindowOpenCall

Spec == Init /\ [][Next]_vars

\* playback in the Player Host: the progress interval and the seek bar
\* next to play, pause, end, load failures and the Escape key
NextPlayback ==
    \/ MountViewer
    \/ UnmountViewer
    \/ PlayVideo
    \/ WatchAgain
    \/ BackButton
    \/ ParentGateDismiss
    \/ ParentGateBack
    \/ TogglePlay
    \/ WidgetReady
    \/ WidgetStateChange
    \/ WidgetEnds
    \/ WidgetError
    \/ LoadTimeout
    \/ Retry
    \/ ProgressPoll
    \/ SeekStart
    \/ SeekEnd
    \/ KeyDown

SpecPlayback == Init /\ [][NextPlayback]_vars

\* the sandbox module on its own: its exported functions called in any
\* order, one component registering a reaction callback, every monitored
\* event
NextApi ==
    \/ ApiInit
    \/ ApiCleanup
    \/ ApiLock
    \/ ApiUnlock
    \/ ApiSetPlaying
    \/ ApiRegister
    \/ ApiUnregister
    \/ MessageEvent
    \/ BackNavigation
    \/ WindowOpenCall
    \/ AnchorClick
    \/ KeyDown
    \/ NuisanceGesture
    \/ Touch
    \/ FullscreenRequest
    \/ FullscreenChange

SpecApi == Init /\ [][NextApi]_vars

\* the sandbox module with several components registering reaction
\* callbacks, one of which throws
NextReactions ==
    \/ ApiInit
    \/ ApiCleanup
    \/ ApiLock
    \/ ApiUnlock
    \/ ApiRegisterAny
    \/ ApiUnregisterAny
    \/ AppMessageEvent
    \/ BackNavigation
    \/ WindowOpenCall
    \/ KeyDown

SpecReactions == Init /\ [][NextReactions]_vars

\* sandboxSecurity with set-up steps and cleanup functions that throw
NextFaults ==
    \/ ApiInit
    \/ ApiInitFailing
    \/ ApiCleanup
    \/ ApiCleanupThrowing
    \/ ApiLock
    \/ ApiUnlock
    \/ ApiRegister
    \/ BackNavigation
    \/ KeyDown
    \/ WindowOpenCall

SpecFaults == Init /\ [][NextFaults]_vars

\* --- DeleteConfirmModal --------------------------------------------------
\* the application state, which the steps of the other components leave
AppUnchanged ==
    UNCHANGED <<state, listeners, windowOpen, requestFullscreen, historyDepth,
                fullscreenElement, viewer, player, widget, ev>>

ModalOnly ==
    AppUnchanged /\ UNCHANGED <<tracker, hoursCheck, limiter, library>>

\* the parent renders the modal with isOpen: the reset effect runs
ModalOpen ==
    /\ ~modal.isOpen
    /\ \E a \in Answers :
          modal' = [modal EXCEPT !.isOpen = TRUE,
                                 !.answer = a,
                                 !.userAnswer = <<>>,
                                 !.error = "",
                                 !.isDeleting = FALSE,
                                 !.last = "none"]
    /\ ModalOnly

\* onChange of the answer field, which is disabled while deleting
ModalType ==
    /\ modal.isOpen
    /\ ~modal.isDeleting
    /\ \E t \in TypedAnswers :
          modal' = [modal EXCEPT !.userAnswer = t, !.error = "", !.last = "none"]
    /\ ModalOnly

\* Enter in the answer field, or the Delete button (enabled when something
\* is typed); both are disabled while deleting
ModalSubmit ==
    /\ modal.isOpen
    /\ ~modal.isDeleting
    /\ modal.confirmed < MaxConfirms
    /\ \E next \in Answers : modal' = handleSubmit(modal, next)
    /\ ModalOnly

\* the promise of onConfirm settles: fulfilled, or rejected (the catch)
ModalConfirmSettles ==
    /\ modal.inFlight >= 1
    /\ \E ok \in BOOLEAN :
          modal' = IF ok
                   THEN [modal EXCEPT !.inFlight = @ - 1, !.last = "none"]
                   ELSE [modal EXCEPT !.inFlight = @ - 1,
                                      !.error = "Failed to delete. Please try again.",
                                      !.isDeleting = FALSE,
                                      !.last = "none"]
    /\ ModalOnly

\* the parent closes the modal: onCancel (disabled while deleting), or
\* after the deletion it awaited
ModalClose ==
    /\ modal.isOpen
    /\ modal.inFlight = 0
    /\ modal' = [modal EXCEPT !.isOpen = FALSE, !.last = "none"]
    /\ ModalOnly

NextModal ==
    \/ ModalOpen
    \/ ModalType
    \/ ModalSubmit
    \/ ModalConfirmSettles
    \/ ModalClose

SpecModal == Init /\ [][NextModal]_vars

\* --- Screen time -----------------------------------------------------------
TrackerOnly ==
    AppUnchanged /\ UNCHANGED <<modal, hoursCheck, limiter, library>>

\* the clock: a minute passes, or midnight does
Tick ==
    /\ \/ /\ tracker.now < MaxMinutes
          /\ tracker' = [tracker EXCEPT !.now = @ + 1]
       \/ /\ tracker.today < MaxDays
          /\ tracker' = [tracker EXCEPT !.today = @ + 1]
    /\ TrackerOnly

\* startSession: the stored record gets the current time as session start
\* (last.disturbed: a write while endSession is between two awaits)
startSession ==
    /\ tracker' = [tracker EXCEPT
                      !.db.session_start_time = tracker.now,
                      !.last = [@ EXCEPT !.op = "none",
                                         !.disturbed = tracker.pc # "idle"]]
    /\ TrackerOnly

\* updateTimeUsage called on its own
UpdateTimeUsage ==
    /\ \E minutesToAdd \in 1..2 :
          /\ updateTimeUsage(tracker.db, tracker.today, minutesToAdd).daily_time_used
                 <= MaxUsage
          /\ tracker' = [tracker EXCEPT
                            !.db = updateTimeUsage(tracker.db, tracker.today,
                                                   minutesToAdd),
                            !.last = [@ EXCEPT !.op = "none",
                                               !.disturbed = tracker.pc # "idle"]]
    /\ TrackerOnly

\* endSession up to its first await: the record is read; without a session
\* start the call returns; the session's whole minutes are computed
EndSessionRead ==
    /\ tracker.pc = "idle"
    /\ tracker' =
          IF tracker.db.session_start_time = -1
          THEN [tracker EXCEPT !.last = [@ EXCEPT !.op = "none"]]
          ELSE LET sessionMinutes == tracker.now - tracker.db.session_start_time
               IN  [tracker EXCEPT
                       !.settings = tracker.db,
                       !.sessionMinutes = sessionMinutes,
                       !.pc = IF sessionMinutes > 0 THEN "usage" ELSE "save",
                       !.last = [op |-> "none",
                                 previous |-> tracker.db.daily_time_used,
                                 sessionMinutes |-> sessionMinutes,
                                 sameDay |-> FALSE,
                                 disturbed |-> FALSE]]
    /\ TrackerOnly

\* endSession's await updateTimeUsage(settingsId, sessionMinutes)
EndSessionUsage ==
    /\ tracker.pc = "usage"
    /\ updateTimeUsage(tracker.db, tracker.today, tracker.sessionMinutes).daily_time_used
           <= MaxUsage
    /\ tracker' = [tracker EXCEPT
                      !.db = updateTimeUsage(tracker.db, tracker.today,
                                             tracker.sessionMinutes),
                      !.pc = "save",
                      !.last.sameDay = tracker.db.last_viewed_date = tracker.today]
    /\ TrackerOnly

\* the rest of endSession: the record read at the start, with the session
\* start removed, is saved
EndSessionSave ==
    /\ tracker.pc = "save"
    /\ tracker' = [tracker EXCEPT
                      !.db = [tracker.settings EXCEPT !.session_start_time = -1],
                      !.pc = "idle",
                      !.last.op = "endSession"]
    /\ TrackerOnly

NextTimeTracking ==
    \/ Tick
    \/ startSession
    \/ UpdateTimeUsage
    \/ EndSessionRead
    \/ EndSessionUsage
    \/ EndSessionSave

SpecTimeTracking == Init /\ [][NextTimeTracking]_vars

\* the time check at the head of handlePlayVideo (the daily limit not
\* reached): the restriction overlay shows when the check fails
PlayVideoTimeCheck ==
    /\ LET withinAllowedHours == isWithinAllowedHours(hoursCheck, hoursCheck.hour)
       IN  hoursCheck' = [hoursCheck EXCEPT
                             !.checked = TRUE,
                             !.withinAllowedHours = withinAllowedHours,
                             !.showTimeRestriction = ~withinAllowedHours]
    /\ AppUnchanged
    /\ UNCHANGED <<modal, tracker, limiter, library>>

\* every hour of the clock with every setting of the two hours
InitAllowedHours ==
    /\ InitApp
    /\ hoursCheck \in
          { [checked |-> FALSE, hour |-> currentHour,
             bedtime_hour |-> bedtime_hour, wake_time_hour |-> wake_time_hour,
             withinAllowedHours |-> TRUE, showTimeRestriction |-> FALSE] :
               currentHour \in 0..23,
               bedtime_hour \in -1..23,
               wake_time_hour \in -1..23 }

SpecAllowedHours == InitAllowedHours /\ [][PlayVideoTimeCheck]_vars

\* --- The proxy's rate limiter -----------------------------------------------
LimiterOnly ==
    AppUnchanged /\ UNCHANGED <<modal, tracker, hoursCheck, library>>

\* Date.now() advances: by a millisecond, or by the length of a window
ClockAdvance ==
    /\ limiter.steps < MaxClockSteps
    /\ \E d \in {1, RATE_WINDOW} :
          limiter' = [limiter EXCEPT !.now = @ + d, !.steps = @ + 1]
    /\ LimiterOnly

\* a GET request with a configured key reaches the limiter: 429 when it is
\* refused, else the request goes on with the X-RateLimit-Remaining header
ProxyRequest ==
    /\ \E ip \in ClientIPs :
          /\ ip = "unknown" => limiter.map[ip].count < MaxOtherRequests
          /\ LET rateLimit == checkRateLimit(limiter.map, limiter.now, ip)
             IN  limiter' = [limiter EXCEPT
                                !.map = rateLimit.map,
                                !.last = [ip |-> ip,
                                          allowed |-> rateLimit.allowed,
                                          remaining |-> rateLimit.remaining,
                                          status |-> IF rateLimit.allowed
                                                     THEN 200 ELSE 429]]
    /\ LimiterOnly

NextRateLimit ==
    \/ ClockAdvance
    \/ ProxyRequest

SpecRateLimit == Init /\ [][NextRateLimit]_vars

\* --- Playlists (lib/api/playlists, PlaylistManager) -------------------------
LibraryOnly ==
    AppUnchanged /\ UNCHANGED <<modal, tracker, hoursCheck, limiter>>

\* handleCreatePlaylist with a name typed (Enter in the name field, which
\* stays enabled while a creation runs): isFirst comes from the list the
\* manager shows; createPlaylist(name, isFirst) reads the stored playlists
\* when isFirst and is left with the defaults among them to unset
HandleCreatePlaylist ==
    /\ \E t \in 1..MaxTasks :
          /\ library.tasks[t].pc = "idle"
          /\ \A u \in 1..(t - 1) : library.tasks[u].pc # "idle"
          /\ Cardinality({ p \in 1..MaxPlaylists : library.db[p].exists })
               + Cardinality({ u \in 1..MaxTasks :
                                  library.tasks[u].pc \in {"update", "add"}
                                  /\ library.tasks[u].kind = "create" })
               < MaxPlaylists
          /\ LET isFirst == \A p \in 1..MaxPlaylists : ~library.playlists[p].exists
                 todo == IF isFirst
                         THEN { p \in 1..MaxPlaylists :
                                   library.db[p].exists /\ library.db[p].is_default }
                         ELSE {}
             IN  library' = [library EXCEPT
                                !.tasks[t] = [pc |-> IF todo # {} THEN "update"
                                                     ELSE "add",
                                              kind |-> "create",
                                              isDefault |-> isFirst,
                                              id |-> 0,
                                              todo |-> todo]]
    /\ LibraryOnly

\* handleSetDefault(id) from the button of a listed playlist not shown as
\* default: setDefaultPlaylist(id) reads the stored playlists and is left
\* with those whose flag differs from "is the playlist id"
HandleSetDefault ==
    /\ \E t \in 1..MaxTasks, id \in 1..MaxPlaylists :
          /\ library.tasks[t].pc = "idle"
          /\ \A u \in 1..(t - 1) : library.tasks[u].pc # "idle"
          /\ library.playlists[id].exists
          /\ ~library.playlists[id].is_default
          /\ \A u \in 1..MaxTasks :
                ~(library.tasks[u].pc # "idle"
                  /\ library.tasks[u].kind = "setDefault"
                  /\ library.tasks[u].id = id)
          /\ LET todo == { p \in 1..MaxPlaylists :
                              /\ library.db[p].exists
                              /\ library.db[p].is_default # (p = id) }
             IN  library' = [library EXCEPT
                                !.tasks[t] = [pc |-> IF todo # {} THEN "update"
                                                     ELSE "load",
                                              kind |-> "setDefault",
                                              isDefault |-> FALSE,
                                              id |-> id,
                                              todo |-> todo]]
    /\ LibraryOnly

\* one turn of either loop: await db.updatePlaylist(p) puts the playlist
\* read at the start with its flag changed
UpdatePlaylist ==
    /\ \E t \in 1..MaxTasks :
          /\ library.tasks[t].pc = "update"
          /\ \E p \in library.tasks[t].todo :
                LET task == library.tasks[t]
                    rest == task.todo \ {p}
                IN  library' = [library EXCEPT
                       !.db[p] = [exists |-> TRUE, is_default |-> p = task.id],
                       !.tasks[t].todo = rest,
                       !.tasks[t].pc = IF rest # {} THEN "update"
                                       ELSE IF task.kind = "create" THEN "add"
                                       ELSE "load"]
    /\ LibraryOnly

\* the end of createPlaylist: the new playlist, under a fresh id, is added
CreateAdd ==
    /\ \E t \in 1..MaxTasks :
          /\ library.tasks[t].pc = "add"
          /\ LET id == CHOOSE p \in 1..MaxPlaylists :
                          /\ ~library.db[p].exists
                          /\ \A q \in 1..(p - 1) : library.db[q].exists
             IN  library' = [library EXCEPT
                    !.db[id] = [exists |-> TRUE,
                                is_default |-> library.tasks[t].isDefault],
                    !.tasks[t].pc = "load"]
    /\ LibraryOnly

\* await loadPlaylists() at the end of both handlers: the manager lists the
\* stored playlists, and the handler is done
LoadPlaylists ==
    /\ \E t \in 1..MaxTasks :
          /\ library.tasks[t].pc = "load"
          /\ library' = [library EXCEPT
                            !.playlists = library.db,
                            !.tasks[t] = [pc |-> "idle", kind |-> "none",
                                          isDefault |-> FALSE, id |-> 0,
                                          todo |-> {}]]
    /\ LibraryOnly

NextPlaylists ==
    \/ HandleCreatePlaylist
    \/ HandleSetDefault
    \/ UpdatePlaylist
    \/ CreateAdd
    \/ LoadPlaylists

SpecPlaylists == Init /\ [][NextPlaylists]_vars

\* ------------------------------------------------------------------------
\* Properties
\* ------------------------------------------------------------------------
\* the event types and calls the sandbox monitors
Monitored ==
    { "message", "popstate", "window.open", "click", "keydown", "contextmenu",
      "dblclick", "dragstart", "touchstart", "touchend", "touchmove",
      "requestFullscreen", "fullscreenchange", "webkitfullscreenchange" }

\* the last step neither suppressed anything nor classified an escape
Untouched ==
    /\ ~ev.defaultPrevented
    /\ ~ev.propagationStopped
    /\ ~ev.immediateStopped
    /\ ev.classified = 0
    /\ ev.invoked = <<>>
    /\ ev.result \in {"none", "opened", "native"}

\* C1: while the sandbox is torn down (cleanupSandboxSecurity has run and
\* initSandboxSecurity has not been called again), a monitored event or
\* call is not suppressed, not classified and reaches no reaction callback;
\* window.open and requestFullscreen behave natively.
C1_TeardownComplete ==
    (ev.type \in Monitored /\ ~state.isInitialized) => Untouched

\* a popstate dispatched after a teardown, with containment locked again
\* and a reaction callback registered
C1_Witness ==
    /\ ev.type = "popstate"
    /\ ~state.isInitialized
    /\ state.originalWindowOpen = 0
    /\ state.isNavigationLocked
    /\ state.escapeHandlers # <<>>

\* every layer is installed exactly once
InstalledOnce ==
    /\ \A t \in EventTypes :
          Count(listeners[t], "sb") =
              Cardinality({i \in 1..Len(Layers) : Includes(LayerEvents(Layers[i]), t)})
    /\ Len(state.cleanupFunctions) = Len(Layers)
    /\ \A i \in 1..Len(Layers) : state.cleanupFunctions[i].layer = Layers[i]
    /\ windowOpen = 1
    /\ requestFullscreen = 1

\* C2: whenever the sandbox is initialized, also after initSandboxSecurity
\* was called again while initialized, each layer is subscribed once and
\* there are exactly the cleanup handles of one initialization; no event
\* is classified twice.
C2_InitIdempotent ==
    /\ state.isInitialized => InstalledOnce
    /\ ev.type \in Monitored => ev.classified <= 1

\* initSandboxSecurity has just been called while already initialized
C2_Witness ==
    /\ ev.type = "initSandboxSecurity"
    /\ ev.arg = TRUE
    /\ state.isInitialized

\* the origin is one of ALLOWED_ORIGINS
InAllowList(origin) ==
    \E i \in 1..Len(ALLOWED_ORIGINS) : origin = ALLOWED_ORIGINS[i]

\* C3: a message received while locked from an origin that is not allowed
\* is classified as an escape attempt: reaction callbacks run, propagation
\* is stopped, the parent gate is visible.
C3_UnknownOriginIsEscape ==
    (ev.type = "message" /\ ev.locked /\ ~InAllowList(ev.arg.origin)) =>
        /\ ev.classified >= 1
        /\ ev.invoked # <<>>
        /\ ev.immediateStopped
        /\ player.showParentGate

\* C4: a message from an allowed origin whose event field is a safe event
\* is benign, locked or not: nothing is suppressed, classified or called,
\* and the containment state, the components and the history stay as they
\* were.
C4_SafeMessageBenign ==
    [][ ( /\ ev'.type = "message"
          /\ InAllowList(ev'.arg.origin)
          /\ ev'.arg.data.event \in ALLOWED_YOUTUBE_EVENTS )
        => ( /\ ~ev'.defaultPrevented
             /\ ~ev'.propagationStopped
             /\ ~ev'.immediateStopped
             /\ ev'.classified = 0
             /\ ev'.invoked = <<>>
             /\ state' = state
             /\ historyDepth' = historyDepth
             /\ player' = player
             /\ viewer' = viewer ) ]_vars

\* a safe event that also carries a navigation-like info.event, received
\* while locked with a callback registered
C4_Witness ==
    /\ ev.type = "message"
    /\ ev.locked
    /\ InAllowList(ev.arg.origin)
    /\ ev.arg.data.event = <<"onStateChange">>
    /\ ev.arg.data.info = <<"navigate", "_out">>
    /\ state.escapeHandlers # <<>>

\* C5: while locked, a back navigation leaves the playback view open and
\* the history at least as deep as before the back action.
C5_BackStaysInPlayback ==
    (ev.type = "popstate" /\ ev.locked) =>
        /\ viewer.isWatching
        /\ player.mounted
        /\ historyDepth >= ev.depthBefore

\* C6: with the player mounted and locked, one popstate pushes a history
\* entry, calls the player's escape reaction once and leaves the parent
\* gate visible.
C6_PopstateShowsGate ==
    (ev.type = "popstate" /\ ev.locked /\ Includes(ev.invoked, "player")) =>
        /\ historyDepth >= ev.depthBefore
        /\ Count(ev.invoked, "player") = 1
        /\ player.showParentGate

\* C7: when an escape is triggered, every registered callback is called,
\* in registration order, whichever of them throw, and the code that
\* triggered the escape completes: window.open returns null, a suspicious
\* message and an Escape key press are stopped.
C7_CallbackIsolation ==
    /\ ev.classified >= 1 => (ev.invoked = state.escapeHandlers /\ ~ev.threw)
    /\ (ev.type = "window.open" /\ ev.classified >= 1) => ev.result = "null"
    /\ (ev.type = "keydown" /\ ev.classified >= 1) => ev.immediateStopped
    /\ (ev.type = "message" /\ ev.classified >= 1) => ev.immediateStopped

\* three callbacks registered, the second one throws, an escape triggered
C7_Witness ==
    /\ ev.classified = 1
    /\ state.escapeHandlers = <<"cb1", "cb2", "cb3">>
    /\ ev.invoked = <<"cb1", "cb2", "cb3">>

\* C8 as stated: the counters never decrease, and are zero again once the
\* player has switched to another video id or the playback view was left.
C8_CounterResets ==
    [][ /\ (player.mounted /\ player'.mounted) =>
               player'.escapeAttemptCount >= player.escapeAttemptCount
        /\ (player.mounted /\ (~player'.mounted \/ player'.videoId # player.videoId))
               => ( /\ player'.escapeAttemptCount = 0
                    /\ viewer'.escapeAttemptCount = 0 ) ]_vars

\* C8 amended: while the player stays mounted its counter grows by one per
\* call of its escape reaction, which is once per classified escape, and
\* changes in no other step, a change of video id included; it is zero
\* when the player mounts.  ChildViewer's counter grows the same way and
\* is kept while ChildViewer stays mounted, also across playback views.
C8_CounterPerMount ==
    [][ /\ (player.mounted /\ player'.mounted) =>
               /\ player'.escapeAttemptCount =
                      player.escapeAttemptCount + Count(ev'.invoked, "player")
               /\ ev'.type \in Monitored =>
                      Count(ev'.invoked, "player") = ev'.classified
        /\ (~player.mounted /\ player'.mounted) => player'.escapeAttemptCount = 0
        /\ ~player'.mounted => player'.escapeAttemptCount = 0
        /\ (viewer.mounted /\ viewer'.mounted) =>
               viewer'.escapeAttemptCount =
                   viewer.escapeAttemptCount + Count(ev'.invoked, "player") ]_vars

\* another video chosen under the player after an escape attempt: the
\* player shows the new video and still counts the earlier attempt
C8_Witness ==
    /\ ev.type = "handlePlayVideo"
    /\ player.mounted
    /\ player.videoId = ev.arg
    /\ player.escapeAttemptCount >= 1

\* C9: while locked, Escape is suppressed and stopped, classified as an
\* escape attempt, and the parent gate is shown over the playback view,
\* which stays open.
C9_EscapeKeyShowsGate ==
    (ev.type = "keydown" /\ ev.arg = "Escape" /\ ev.locked) =>
        /\ ev.defaultPrevented
        /\ ev.propagationStopped
        /\ ev.classified = 1
        /\ viewer.isWatching
        /\ player.mounted
        /\ player.showParentGate

C9_Witness ==
    /\ ev.type = "keydown"
    /\ ev.arg = "Escape"
    /\ ev.locked
    /\ player.showParentGate
    /\ player.escapeAttemptCount = 1

\* C10: a blocked key other than Escape is suppressed and stopped while
\* locked and left alone while unlocked; either way nothing is classified,
\* no callback runs and the components (escape counters, parent gate) stay
\* as they were.
C10_BlockedKeyNoEscape ==
    [][ (ev'.type = "keydown" /\ ev'.arg \in BLOCKED_KEYS \ {"Escape"})
        => ( /\ ev'.defaultPrevented = ev'.locked
             /\ ev'.propagationStopped = ev'.locked
             /\ ev'.classified = 0
             /\ ev'.invoked = <<>>
             /\ player' = player
             /\ viewer' = viewer ) ]_vars

\* "f" pressed while locked, with the gate hidden
C10_Witness ==
    /\ ev.type = "keydown"
    /\ ev.arg = "f"
    /\ ev.locked
    /\ ev.defaultPrevented
    /\ player.mounted
    /\ ~player.showParentGate

\* C11: the list of cleanup handles is empty exactly when the sandbox is
\* not initialized, also after an initialization whose set-up stopped
\* part-way.
C11_HandlesIffInitialized ==
    (state.cleanupFunctions = <<>>) <=> ~state.isInitialized

\* the layers of the handles in cs, in order
HandleLayers(cs) == [i \in 1..Len(cs) |-> cs[i].layer]

\* C20: cleanupSandboxSecurity called while initialized calls every cleanup
\* handle, in order, whichever of them throw, lets no exception out and
\* ends with no handles, no callbacks and initialized, locked and playing
\* all false; called while not initialized it changes nothing.
C20_CleanupIsolation ==
    [][ ev'.type = "cleanupSandboxSecurity" =>
          IF state.isInitialized
          THEN /\ ev'.invoked = HandleLayers(state.cleanupFunctions)
               /\ ~ev'.threw
               /\ state'.cleanupFunctions = <<>>
               /\ state'.escapeHandlers = <<>>
               /\ ~state'.isInitialized
               /\ ~state'.isNavigationLocked
               /\ ~state'.isPlaying
          ELSE /\ ev'.invoked = <<>>
               /\ state' = state
               /\ listeners' = listeners
               /\ windowOpen' = windowOpen
               /\ requestFullscreen' = requestFullscreen ]_vars

\* a teardown in which two of the eleven cleanup functions threw
C20_Witness ==
    /\ ev.type = "cleanupSandboxSecurity"
    /\ ev.arg = TRUE
    /\ ev.faults = {"targetBlank", "fullscreen"}
    /\ Len(ev.invoked) >= Len(Layers)
    /\ ~state.isInitialized

\* C12: no button of the parent gate starts playback: the gate offers no
\* challenge, so pressing a button is never the correct answer to one.
C12_GateBlocksResume ==
    [][ ( /\ player.mounted
          /\ player.showParentGate
          /\ ev'.type \in {"gateDismiss", "gateBack"} )
        => ~(widget.status # "playing" /\ widget'.status = "playing") ]_vars

C14_GateBackUnlocks ==
    ev.type = "gateBack" =>
        /\ ~player.showParentGate
        /\ ~player.mounted
        /\ viewer.mounted
        /\ ~viewer.isWatching
        /\ ~state.isNavigationLocked
        /\ ~state.isPlaying
        /\ state.escapeHandlers = <<>>
        /\ widget = NoWidget

\* the gate was left with "Back to Browse" while the sandbox was locked
C14_Witness ==
    /\ ev.type = "gateBack"
    /\ ev.locked
    /\ viewer.escapeAttemptCount >= 1
    /\ ~player.mounted

\* C15: while locked, a message whose origin is not one of the allowed
\* origins, be it one that begins with an allowed origin, takes the
\* filter's unknown-origin branch.
C15_PrefixOriginIsUnknown ==
    ( /\ ev.type = "message"
      /\ state.isInitialized
      /\ ev.locked
      /\ ~InAllowList(ev.arg.origin) )
    => ev.result = "unknown origin"

\* the event type of a structured payload: its event field or else the
\* event field of its info; NoEvent when it has none or is not structured
PayloadEventType(data) ==
    IF data.kind \in {"object", "json"}
    THEN (IF data.event # NoEvent THEN data.event ELSE data.info)
    ELSE NoEvent

C17_FullscreenBlocked ==
    /\ (ev.type = "requestFullscreen" /\ state.isInitialized /\ ev.locked) =>
           (ev.result = "rejected" /\ ev.classified = 1)
    /\ ( /\ ev.type \in {"fullscreenchange", "webkitfullscreenchange"}
         /\ state.isInitialized
         /\ ev.locked
         /\ ev.arg = TRUE )
       => (ev.result = "exitFullscreen" /\ ev.classified = 1)

\* C18: with the sandbox initialized, window.open while locked returns
\* null, opens nothing and is classified once; while unlocked it is passed
\* with its arguments to the original window.open and nothing is
\* classified or called.
C18_WindowOpen ==
    (ev.type = "window.open" /\ state.isInitialized) =>
        IF ev.locked
        THEN /\ ev.result = "null"
             /\ ev.passed = "none"
             /\ ev.classified = 1
             /\ ev.invoked = state.escapeHandlers
        ELSE /\ ev.result = "opened"
             /\ ev.passed = ev.arg
             /\ ev.classified = 0
             /\ ev.invoked = <<>>

\* window.open blocked while locked, with a callback to hear of it
C18_Witness ==
    /\ ev.type = "window.open"
    /\ state.isInitialized
    /\ ev.locked
    /\ ev.result = "null"
    /\ ev.invoked = <<"cb1">>

\* C19: with the sandbox initialized, a click on an anchor is suppressed
\* and classified exactly when the sandbox is locked and the resolved href
\* has another origin than the app.
C19_CrossOriginAnchor ==
    (ev.type = "click" /\ state.isInitialized /\ ev.arg.anchor) =>
        IF ev.locked /\ ev.arg.crossOrigin
        THEN ev.defaultPrevented /\ ev.classified = 1
        ELSE ~ev.defaultPrevented /\ ev.classified = 0

\* s without the element x
Without(s, x) == SelectSeq(s, LAMBDA h : h # x)

\* C21: the function onEscapeDetected returned removes its callback from
\* the handler set and nothing else, keeping the other callbacks and their
\* order; an escape attempt calls exactly the callbacks registered then.
C21_UnsubscribeExact ==
    [][ /\ ev'.type = "unsubscribe" =>
              /\ state'.escapeHandlers = Without(state.escapeHandlers, ev'.arg)
              /\ state' = [state EXCEPT !.escapeHandlers = state'.escapeHandlers]
              /\ listeners' = listeners
              /\ historyDepth' = historyDepth
        /\ ev'.classified >= 1 => ev'.invoked = state.escapeHandlers ]_vars

\* the second of three callbacks was unsubscribed, the others stay
C21_Witness ==
    /\ ev.type = "unsubscribe"
    /\ ev.arg = "cb2"
    /\ state.escapeHandlers = <<"cb1", "cb3">>

\* C23: lockNavigation sets isNavigationLocked and isPlaying, adds two
\* history entries and changes nothing else.
C23_LockFrame ==
    [][ ev'.type = "lockNavigation" =>
          /\ state' = [state EXCEPT !.isNavigationLocked = TRUE,
                                    !.isPlaying = TRUE]
          /\ historyDepth' = historyDepth + 2
          /\ listeners' = listeners
          /\ windowOpen' = windowOpen
          /\ requestFullscreen' = requestFullscreen ]_vars

\* lockNavigation called while already locked, with the sandbox
\* initialized and a callback registered
C23_Witness ==
    /\ ev.type = "lockNavigation"
    /\ ev.locked
    /\ state.isInitialized
    /\ state.escapeHandlers # <<>>
    /\ historyDepth = ev.depthBefore + 2

\* C24: setPlayingState(b) sets isPlaying to b and changes nothing else,
\* locked or not.
C24_SetPlayingFrame ==
    [][ ev'.type = "setPlayingState" =>
          /\ state' = [state EXCEPT !.isPlaying = ev'.arg]
          /\ historyDepth' = historyDepth
          /\ listeners' = listeners
          /\ windowOpen' = windowOpen
          /\ requestFullscreen' = requestFullscreen ]_vars

\* setPlayingState(true) while unlocked
C24_Witness ==
    /\ ev.type = "setPlayingState"
    /\ ev.arg = TRUE
    /\ ~ev.locked
    /\ state.isPlaying
    /\ ~state.isNavigationLocked

\* C25: with the sandbox initialized and unlocked, a message from an
\* origin that is not allowed is ignored whatever it carries.
C25_UnknownOriginUnlockedIgnored ==
    ( /\ ev.type = "message"
      /\ state.isInitialized
      /\ ~ev.locked
      /\ ~InAllowList(ev.arg.origin) )
    => (ev.classified = 0 /\ ev.invoked = <<>> /\ ~ev.immediateStopped)

\* C26: with the sandbox initialized, contextmenu, dblclick and dragstart
\* are prevented and stopped exactly while locked; nothing is classified
\* and no callback runs.
C26_NuisanceGestures ==
    (ev.type \in {"contextmenu", "dblclick", "dragstart"} /\ state.isInitialized) =>
        /\ ev.defaultPrevented = ev.locked
        /\ ev.propagationStopped = ev.locked
        /\ ev.classified = 0
        /\ ev.invoked = <<>>

\* a drag suppressed while locked with a callback registered
C26_Witness ==
    /\ ev.type = "dragstart"
    /\ state.isInitialized
    /\ ev.locked
    /\ ev.defaultPrevented
    /\ state.escapeHandlers # <<>>

\* C28: a message whose data is a string that does not parse is benign:
\* nothing is classified, stopped or called and no exception leaves the
\* handler, locked or not and whatever the origin.
C28_UnparseableBenign ==
    (ev.type = "message" /\ state.isInitialized /\ ev.arg.data.kind = "text") =>
        /\ ev.classified = 0
        /\ ev.invoked = <<>>
        /\ ~ev.propagationStopped
        /\ ~ev.immediateStopped
        /\ ~ev.threw

\* an unparseable string from the embed's origin while locked
C28_Witness ==
    /\ ev.type = "message"
    /\ state.isInitialized
    /\ ev.locked
    /\ ev.arg.data.kind = "text"
    /\ InAllowList(ev.arg.origin)
    /\ ev.result = "none"

\* the Player Host shows its loading state
Loading(p) == p.mounted /\ ~p.isReady /\ ~p.loadError

C27_FlagEqualsHost ==
    player.mounted => state.isPlaying = player.isPlaying

\* C27: every change of the host's isPlaying while it stays mounted sets
\* the containment playing flag to the new value, and a playing host has
\* the flag set and navigation locked. (Between mounting and the first
\* change the flag is true although the host is not playing.)
C27_FlagFollowsTransitions ==
    [][ /\ (player.mounted /\ player'.mounted
              /\ player'.isPlaying # player.isPlaying) =>
                  state'.isPlaying = player'.isPlaying
        /\ (player'.mounted /\ player'.isPlaying) =>
              (state'.isPlaying /\ state'.isNavigationLocked) ]_vars

\* the embedded player reported PAUSED and the flag went down with the
\* host's isPlaying, navigation staying locked
C27_Witness ==
    /\ ev.type = "onStateChange"
    /\ ev.arg = "paused"
    /\ player.mounted
    /\ ~player.isPlaying
    /\ ~state.isPlaying
    /\ state.isNavigationLocked

\* C29: when "Try Again" has put the Player Host back into its loading
\* state, a load timer is pending whose callback will put it into the
\* error state if the player does not become ready.
C29_LoadingHasEffectiveTimeout ==
    (ev.type = "retry" /\ Loading(player)) => player.loadTimeout = "armed"

\* C30: a progress poll that read the times leaves the end-screen overlay
\* shown exactly when the duration is positive and at most twelve
\* seconds remain; the overlay is hidden after ENDED
\* and whenever the player is initialized again.
C30_EndScreenOverlay ==
    /\ (ev.type = "updateProgress" /\ ev.result = "read" /\ player.mounted) =>
           player.isNearEnd =
               (ev.arg.total > 0 /\ ev.arg.total - ev.arg.current <= 12)
    /\ (ev.type = "onStateChange" /\ ev.arg = "ended") => ~player.isNearEnd
    /\ widget.status \in {"none", "loading"} => ~player.isNearEnd

\* a poll exactly twelve seconds before the end shows the overlay
C30_Witness ==
    /\ ev.type = "updateProgress"
    /\ ev.result = "read"
    /\ ev.arg.total - ev.arg.current = 12
    /\ player.isNearEnd
    /\ player.isPlaying

\* the monitored events and calls that can classify an escape attempt
Classifying ==
    { "message", "popstate", "window.open", "click", "keydown",
      "requestFullscreen", "fullscreenchange", "webkitfullscreenchange" }

C37_GateKeepsPaused ==
    [][ (player.mounted /\ player.showParentGate /\ ~player.isPlaying
           /\ player'.mounted /\ player'.showParentGate)
        => ~player'.isPlaying ]_vars

\* C38: while the Player Host is mounted navigation is locked.
C38_LockedWhileMounted ==
    player.mounted => state.isNavigationLocked

\* the video ended and the next one loads in the same Player Host, still
\* locked and no longer playing
C38_Witness ==
    /\ ev.type = "onStateChange"
    /\ ev.arg = "ended"
    /\ player.mounted
    /\ ~player.isPlaying
    /\ state.isNavigationLocked
    /\ ~state.isPlaying

\* C39: whenever the sandbox is not initialized, before the first
\* initSandboxSecurity and after every cleanupSandboxSecurity,
\* window.open and requestFullscreen are the native functions; while it
\* is initialized each is wrapped once.
C39_PatchesRestored ==
    /\ ~state.isInitialized => (windowOpen = 0 /\ requestFullscreen = 0)
    /\ state.isInitialized => (windowOpen = 1 /\ requestFullscreen = 1)

\* a teardown of an initialized and locked sandbox has run every cleanup
\* and window.open is what setupWindowOpenBlock had saved
C39_Witness ==
    /\ ev.type = "cleanupSandboxSecurity"
    /\ ev.arg = TRUE
    /\ ev.locked
    /\ Len(ev.invoked) = Len(Layers)
    /\ state.originalWindowOpen = 0
    /\ windowOpen = 0
    /\ requestFullscreen = 0

\* C31: at most one progress interval runs; none runs while the Player
\* Host is not playing or the seek bar is dragged, and none after the
\* host has unmounted; a host that plays undragged has its one interval.
C31_OneProgressInterval ==
    /\ player.activeIntervals <= 1
    /\ (~player.mounted \/ ~player.isPlaying \/ player.isDragging) =>
           player.activeIntervals = 0
    /\ (player.mounted /\ player.isPlaying /\ ~player.isDragging) =>
           player.activeIntervals = 1

\* the Player Host unmounted while it was playing and its interval went
C31_Witness ==
    /\ ev.type = "onBack"
    /\ ~player.mounted
    /\ ev.locked
    /\ player.activeIntervals = 0
    /\ viewer.isPlayerPlaying

C33_EndSessionAddsMinutes ==
    (/\ tracker.last.op = "endSession"
     /\ tracker.last.sessionMinutes > 0
     /\ tracker.last.sameDay
     /\ ~tracker.last.disturbed) =>
        /\ tracker.db.daily_time_used
               = tracker.last.previous + tracker.last.sessionMinutes
        /\ tracker.db.session_start_time = -1

\* C34: with both hours configured and different, isWithinAllowedHours is
\* true exactly in the window from the wake hour up to the bedtime hour
\* (also when that window spans midnight); with an hour not configured it
\* is true.
C34_AllowedFromWakeToBedtime ==
    (hoursCheck.checked /\ hoursCheck.bedtime_hour # hoursCheck.wake_time_hour) =>
        LET h == hoursCheck.hour
            b == hoursCheck.bedtime_hour
            k == hoursCheck.wake_time_hour
        IN  hoursCheck.withinAllowedHours =
               IF b = -1 \/ k = -1 THEN TRUE
               ELSE IF k < b THEN h >= k /\ h < b
               ELSE h >= k \/ h < b


\* C35: per client address a window holds at most 100 allowed requests; a
\* request inside a window (up to and at its reset time) that has 100
\* allowed ones is refused with remaining 0 and changes nothing; an allowed
\* request reports 100 minus the number allowed so far in its window; the
\* first request after the reset time starts a fresh window of one hour;
\* the windows of other addresses are untouched.
C35_HundredPerWindow ==
    [][ /\ \A ip \in ClientIPs :
              limiter'.map[ip].present =>
                  limiter'.map[ip].count \in 1..RATE_LIMIT
        /\ \A ip \in ClientIPs :
              (limiter'.map # limiter.map \/ limiter'.last # limiter.last)
              /\ limiter'.last.ip = ip /\ limiter'.now = limiter.now =>
                 LET old == limiter.map[ip]
                     new == limiter'.map[ip]
                     inWindow == old.present /\ limiter.now <= old.resetTime
                 IN  /\ \A other \in ClientIPs \ {ip} :
                            limiter'.map[other] = limiter.map[other]
                     /\ IF inWindow /\ old.count = RATE_LIMIT
                        THEN /\ ~limiter'.last.allowed
                             /\ limiter'.last.remaining = 0
                             /\ limiter'.last.status = 429
                             /\ new = old
                        ELSE /\ limiter'.last.allowed
                             /\ new.present
                             /\ new.count = (IF inWindow THEN old.count ELSE 0) + 1
                             /\ new.resetTime = IF inWindow THEN old.resetTime
                                                ELSE limiter.now + RATE_WINDOW
                             /\ limiter'.last.remaining = RATE_LIMIT - new.count ]_vars

\* the 101st request of a window, made at the reset time itself, is refused
C35_Witness ==
    /\ limiter.last.ip = "203.0.113.7"
    /\ ~limiter.last.allowed
    /\ limiter.last.remaining = 0
    /\ limiter.map["203.0.113.7"].count = RATE_LIMIT
    /\ limiter.now = limiter.map["203.0.113.7"].resetTime


\* C40: when no createPlaylist or setDefaultPlaylist call is running, at
\* most one stored playlist is marked default.
C40_AtMostOneDefault ==
    (\A t \in 1..MaxTasks : library.tasks[t].pc = "idle") =>
        Cardinality({ p \in 1..MaxPlaylists :
                         library.db[p].exists /\ library.db[p].is_default }) <= 1

====
